---- MODULE Spec2Model ----
(***************************************************************************)
(* Wall-network topology and joint resolution of the BIM editor            *)
(* (lib/wall-joints.ts and lib/bim-geometry.ts).                           *)
(*                                                                         *)
(* Numbers.  Wall endpoints lie in the ground plane (y = 0), so a point is *)
(* a record [x, z].  One coordinate unit is 0.005 length units of the      *)
(* program: the tolerance 0.01 is 2 units, a thickness of 0.375 is 75.     *)
(* Quantities the code computes with division (half a thickness, a miter   *)
(* distance) are exact rationals [n, d].  A Vector3 that the code derives  *)
(* from a wall endpoint by adding a multiple of the wall's normalised      *)
(* direction is a record [p, off]: the endpoint p plus off times the unit  *)
(* vector from the wall's start to its end.  An angle in [0, pi] is        *)
(* represented by its cosine, the rational [num, den] the code passes to   *)
(* Math.acos; acos is strictly decreasing, so comparisons of angles are    *)
(* comparisons of cosines, and the half-angle functions are taken from the *)
(* identities sin^2(a/2) = (1 - cos a)/2, tan(a/2) = sin a / (1 + cos a).  *)
(***************************************************************************)
EXTENDS Integers, Sequences, FiniteSets, TLC

VARIABLES
    walls,            \* the BIMWall[] handed to buildWallNetworks
    pc,               \* position of the rebuild
    networks,         \* result of buildWallNetworks
    net,              \* index of the network whose walls were last resolved
    jointMethod,      \* argument of the running processWallNetwork call
    extensions,       \* its Map<wallId, ExtendedWallGeometry>
    connectionPoints, \* its findConnectionPoints result
    cp,               \* index of the next connection point to process
    junction,         \* locals of the last forEach iteration over connections
    probe,            \* result of a direct detectJointType call
    previous,         \* input and result of the preceding call on these walls
    doors,            \* the BIMDoor[] of the model
    wallDoors,        \* wall.doors of every wall: the ids of its doors
    heap,             \* every BufferGeometry created by the rebuild
    wallGeometries,   \* rebuildScene's wallGeometries
    unifiedGeometry,  \* rebuildScene's unifiedGeometry / wallGeometry
    idx,              \* loop index of the union fold and of the door loop
    networkDoors,     \* rebuildScene's networkDoors
    csgCalls,         \* the performBoolean calls of the rebuild, in order
    scene,            \* the scene's BIM objects
    model,            \* useBIMState: the elements of the current BIMModel
    history,          \* useBIMState: the snapshots kept for undo and redo
    historyIndex,     \* useBIMState: index (from 0) of the current snapshot
    nextId,           \* number of ids handed out by generateId
    event,            \* the last handler that ran, with its arguments
    cache             \* ConstraintEngine: results by cache key

\* State of the mesh assembler
assemblerVars == <<doors, wallDoors, heap, wallGeometries, unifiedGeometry,
                   idx, networkDoors, csgCalls, scene>>

\* State of the editor: the model store and the validation engine
editorVars == <<model, history, historyIndex, nextId, event, cache>>

vars == <<walls, pc, networks, net, jointMethod, extensions,
          connectionPoints, cp, junction, probe, previous, assemblerVars,
          editorVars>>

----------------------------------------------------------------------------
(* Bounds of the model *)

MaxWalls == 5

\* Walls of a model whose networks are resolved repeatedly, and the number of
\* calls on one network
MaxRepeatWalls == 4
MaxCalls == 2

\* Walls and doors of a model whose meshes are assembled
MaxAsmWalls == 3
MaxDoors == 2

----------------------------------------------------------------------------
(* Program constants, in model units *)

Tolerance == 2
ButtOverlapMargin == 2
MiterOverlapMargin == 2

----------------------------------------------------------------------------
(* Exact rational arithmetic *)

RECURSIVE GCD(_, _)
GCD(a, b) == IF b = 0 THEN a ELSE GCD(b, a % b)

Abs(a) == IF a < 0 THEN 0 - a ELSE a

Rat(n, d) ==
    LET s == IF d < 0 THEN 0 - 1 ELSE 1
        g == GCD(Abs(n), Abs(d))
    IN  [n |-> (s * n) \div g, d |-> (s * d) \div g]

RZero == [n |-> 0, d |-> 1]
RAdd(a, b) == Rat(a.n * b.d + b.n * a.d, a.d * b.d)
RSub(a, b) == Rat(a.n * b.d - b.n * a.d, a.d * b.d)
RMul(a, b) == Rat(a.n * b.n, a.d * b.d)
RDiv(a, b) == Rat(a.n * b.d, a.d * b.n)
RLess(a, b) == a.n * b.d < b.n * a.d
RAbs(a) == [n |-> Abs(a.n), d |-> a.d]

ISqrt(n) == CHOOSE r \in 0..n : r * r <= n /\ n < (r + 1) * (r + 1)

----------------------------------------------------------------------------
(* Vector3 *)

Pt(x, z) == [x |-> x, z |-> z]

\* tupleToVec3
tupleToVec3(p) == [p |-> p, off |-> RZero]

\* a.distanceTo(b) < tolerance, for two wall endpoints
Dist2(a, b) == (a.x - b.x) * (a.x - b.x) + (a.z - b.z) * (a.z - b.z)
Near(a, b) == Dist2(a, b) < Tolerance * Tolerance

\* start.distanceTo(end) of a wall
WallLength(w) == ISqrt(Dist2(w.start, w.end))

\* new Vector3().subVectors(a, b).normalize() for the two endpoints of one
\* wall, as its component along the wall's start-to-end unit vector
SubNormalize(a, b) == IF a = "end" /\ b = "start" THEN 1 ELSE 0 - 1

\* v.clone().sub(dir.multiplyScalar(dist)) and v.clone().add(...)
VSub(v, dir, dist) == [p |-> v.p, off |-> RSub(v.off, RMul(Rat(dir, 1), dist))]
VAdd(v, dir, dist) == [p |-> v.p, off |-> RAdd(v.off, RMul(Rat(dir, 1), dist))]

\* wallStart.clone().add(wallDirection.clone().multiplyScalar(offset)): the
\* point at distance offset from the start of a wall towards its end
PointAtOffset(wall, offset) ==
    VAdd(tupleToVec3(wall.start), SubNormalize("end", "start"), offset)

----------------------------------------------------------------------------
(* Walls *)

Wall(i, s, e, t) == [id |-> i, start |-> s, end |-> e, thickness |-> t]

\* The walls a model is built from.  Walls 1, 2, 5, 6, 7 meet at (0,0); the
\* starts of walls 1, 3, 4 lie 0.005 apart on a line, so that 1-3 and 3-4 are
\* within the tolerance and 1-4 is not; wall 3 continues wall 1 in a straight
\* line, wall 6 continues wall 5 within 0.1 rad, wall 7 leaves (0,0) 0.095 rad
\* off wall 5; wall 8 starts within tolerance of the far end of wall 1.
\* Every wall has an integral length: 12, 12, 12, 5, 13, 17, 17, 5.
Catalogue ==
    << Wall(1, Pt(0, 0), Pt(12, 0), 75),
       Wall(2, Pt(0, 12), Pt(0, 0), 75),
       Wall(3, Pt(1, 0), Pt(0 - 11, 0), 75),
       Wall(4, Pt(2, 0), Pt(5, 0 - 4), 100),
       Wall(5, Pt(0, 0), Pt(5, 12), 75),
       Wall(6, Pt(0, 0), Pt(0 - 8, 0 - 15), 100),
       Wall(7, Pt(8, 15), Pt(0, 0), 100),
       Wall(8, Pt(12, 1), Pt(12, 6), 100) >>

WallIds == 1..Len(Catalogue)

\* Every list of at most MaxWalls distinct walls, in every order
WallLists ==
    UNION { { [i \in 1..n |-> Catalogue[f[i]]] :
                f \in { g \in [1..n -> WallIds] :
                          \A a, b \in 1..n : a # b => g[a] # g[b] } } :
            n \in 0..MaxWalls }

Ids(ws) == { ws[i].id : i \in 1..Len(ws) }
WallById(ws, id) == ws[CHOOSE i \in 1..Len(ws) : ws[i].id = id]

----------------------------------------------------------------------------
(* bim-geometry.ts: wall networks *)

wallsAreConnected(wall1, wall2) ==
    \/ Near(wall1.start, wall2.start)
    \/ Near(wall1.start, wall2.end)
    \/ Near(wall1.end, wall2.start)
    \/ Near(wall1.end, wall2.end)

\* The closure state of buildWallNetworks: the visited set and the network
\* under construction
RECURSIVE addConnectedWalls(_, _, _)
RECURSIVE ScanOtherWalls(_, _, _, _)

\* Faulty variant: the neighbours of a wall are added without visiting their own
\* neighbours
RECURSIVE ScanOtherWallsShallow(_, _, _, _)
ScanOtherWallsShallow(ws, wall, j, st) ==
    IF j > Len(ws) THEN st
    ELSE ScanOtherWallsShallow(ws, wall, j + 1,
            IF ws[j].id \notin st.visited /\ wallsAreConnected(wall, ws[j])
            THEN [visited |-> st.visited \cup {ws[j].id},
                  wallIds |-> st.wallIds \cup {ws[j].id},
                  walls   |-> Append(st.walls, ws[j])]
            ELSE st)

\* for (const otherWall of walls) { if (!visited && connected) recurse }
ScanOtherWalls(ws, wall, j, st) ==
    IF j > Len(ws) THEN st
    ELSE ScanOtherWalls(ws, wall, j + 1,
            IF ws[j].id \notin st.visited /\ wallsAreConnected(wall, ws[j])
            THEN addConnectedWalls(ws, ws[j], st)
            ELSE st)

addConnectedWalls(ws, wall, st) ==
    IF wall.id \in st.visited THEN st
    ELSE ScanOtherWalls(ws, wall, 1,
            [visited |-> st.visited \cup {wall.id},
             wallIds |-> st.wallIds \cup {wall.id},
             walls   |-> Append(st.walls, wall)])

\* for (const wall of walls) { if (!visited.has(wall.id)) { ... } }
RECURSIVE NetworkLoop(_, _, _, _)
NetworkLoop(ws, i, visited, nets) ==
    IF i > Len(ws) THEN nets
    ELSE IF ws[i].id \in visited THEN NetworkLoop(ws, i + 1, visited, nets)
    ELSE LET st == addConnectedWalls(ws, ws[i],
                      [visited |-> visited, wallIds |-> {}, walls |-> <<>>])
         IN  NetworkLoop(ws, i + 1, st.visited,
                Append(nets, [wallIds |-> st.wallIds, walls |-> st.walls]))

\* Faulty variant: the visited set is not carried from one network to the next
buildWallNetworksFreshVisited(ws) ==
    [i \in 1..Len(ws) |->
        LET st == addConnectedWalls(ws, ws[i],
                     [visited |-> {}, wallIds |-> {}, walls |-> <<>>])
        IN  [wallIds |-> st.wallIds, walls |-> st.walls]]

buildWallNetworks(ws) ==
    IF Len(ws) = 0 THEN <<>> ELSE NetworkLoop(ws, 1, {}, <<>>)

----------------------------------------------------------------------------
(* wall-joints.ts: connection points and joint classification *)

\* getDirectionFromPoint: the wall's vector away from the point and its length
getDirectionFromPoint(wall, point) ==
    IF Near(wall.start, point)
    THEN [dx |-> wall.end.x - wall.start.x, dz |-> wall.end.z - wall.start.z,
          len |-> WallLength(wall)]
    ELSE [dx |-> wall.start.x - wall.end.x, dz |-> wall.start.z - wall.end.z,
          len |-> WallLength(wall)]

\* dir1.dot(dir2) of two normalised directions, clamped to [-1, 1]: the cosine
\* of the angle that Math.acos returns
DotClamped(dir1, dir2) ==
    LET num == dir1.dx * dir2.dx + dir1.dz * dir2.dz
        den == dir1.len * dir2.len
    IN  IF num > den THEN [num |-> den, den |-> den]
        ELSE IF num < 0 - den THEN [num |-> 0 - den, den |-> den]
        ELSE [num |-> num, den |-> den]

calculateAngleBetweenWalls(wall1, wall2, point) ==
    DotClamped(getDirectionFromPoint(wall1, point),
               getDirectionFromPoint(wall2, point))

\* Math.abs(angle - Math.PI) < 0.1, i.e. cos(angle) < cos(pi - 0.1), with
\* cos(pi - 0.1) = -0.995004165... taken to six decimals
AngleNearPi(angle) == angle.num * 1000000 < (0 - 995004) * angle.den

\* walls.filter(w => start or end within tolerance of point)
wallsAtPoint(ws, point) ==
    SelectSeq(ws, LAMBDA w : Near(w.start, point) \/ Near(w.end, point))

\* Faulty variant: two walls always make a corner
detectJointTypeNoCollinear(ws, point) ==
    LET count == Len(wallsAtPoint(ws, point))
    IN  IF count = 2 THEN "L_JOINT"
        ELSE IF count = 3 THEN "T_JOINT"
        ELSE IF count = 4 THEN "X_JOINT"
        ELSE IF count > 4 THEN "OBLIQUE"
        ELSE "NONE"

detectJointType(ws, point) ==
    LET at    == wallsAtPoint(ws, point)
        count == Len(at)
    IN  IF count = 2
        THEN IF AngleNearPi(DotClamped(getDirectionFromPoint(at[1], point),
                                       getDirectionFromPoint(at[2], point)))
             THEN "NONE"
             ELSE "L_JOINT"
        ELSE IF count = 3 THEN "T_JOINT"
        ELSE IF count = 4 THEN "X_JOINT"
        ELSE IF count > 4 THEN "OBLIQUE"
        ELSE "NONE"

\* The first entry of the point map within tolerance of p, 0 when none
FirstMatch(pointMap, p) ==
    IF \E i \in 1..Len(pointMap) : Near(pointMap[i].point, p)
    THEN CHOOSE i \in 1..Len(pointMap) :
            /\ Near(pointMap[i].point, p)
            /\ \A j \in 1..(i - 1) : ~Near(pointMap[j].point, p)
    ELSE 0

\* pointMap.set(key, value); the key is the point to three decimals, which on
\* the model's grid is the point itself
MapSet(pointMap, p, ws) ==
    IF \E i \in 1..Len(pointMap) : pointMap[i].point = p
    THEN [i \in 1..Len(pointMap) |->
            IF pointMap[i].point = p THEN [point |-> p, walls |-> ws]
            ELSE pointMap[i]]
    ELSE Append(pointMap, [point |-> p, walls |-> ws])

\* "Process start point": push onto the matching entry or create one
AddStart(pointMap, wall) ==
    LET m == FirstMatch(pointMap, wall.start)
    IN  IF m # 0
        THEN [pointMap EXCEPT ![m].walls = Append(@, wall)]
        ELSE MapSet(pointMap, wall.start, <<wall>>)

\* "Process end point": as for the start, but never a duplicate
AddEnd(pointMap, wall) ==
    LET m == FirstMatch(pointMap, wall.end)
    IN  IF m # 0
        THEN IF \E i \in 1..Len(pointMap[m].walls) : pointMap[m].walls[i] = wall
             THEN pointMap
             ELSE [pointMap EXCEPT ![m].walls = Append(@, wall)]
        ELSE MapSet(pointMap, wall.end, <<wall>>)

RECURSIVE PointMapOf(_, _, _)
PointMapOf(ws, i, pointMap) ==
    IF i > Len(ws) THEN pointMap
    ELSE PointMapOf(ws, i + 1, AddEnd(AddStart(pointMap, ws[i]), ws[i]))

findConnectionPoints(ws) ==
    LET pointMap == PointMapOf(ws, 1, <<>>)
        meeting  == SelectSeq(pointMap, LAMBDA e : Len(e.walls) >= 2)
    IN  [i \in 1..Len(meeting) |->
            [point     |-> meeting[i].point,
             walls     |-> meeting[i].walls,
             jointType |-> detectJointType(meeting[i].walls, meeting[i].point)]]

----------------------------------------------------------------------------
(* wall-joints.ts: extensions *)

calculateButtExtension(wall, point, intersectingWallThickness) ==
    LET start == tupleToVec3(wall.start)
        end   == tupleToVec3(wall.end)
        extensionDist ==
            RAdd(Rat(intersectingWallThickness, 2), Rat(ButtOverlapMargin, 1))
    IN  IF Near(wall.start, point)
        THEN [start |-> VSub(start, SubNormalize("end", "start"), extensionDist),
              end |-> end, wasExtended |-> TRUE]
        ELSE IF Near(wall.end, point)
        THEN [start |-> start,
              end |-> VSub(end, SubNormalize("start", "end"), extensionDist),
              wasExtended |-> TRUE]
        ELSE [start |-> start, end |-> end, wasExtended |-> FALSE]

\* Math.abs(Math.sin(angle / 2)) < 0.1: sin^2(angle/2) = (1 - cos)/2 < 1/100
MiterTooSharp(angle) == 100 * (angle.den - angle.num) < 2 * angle.den

\* Math.tan(angle / 2) = sin / (1 + cos); sin * den is the integer
\* sqrt(den^2 - num^2), the length of the cross product of the two vectors
TanHalf(angle) ==
    Rat(ISqrt(angle.den * angle.den - angle.num * angle.num),
        angle.den + angle.num)

\* Faulty variant: the miter distance is taken back into the wall
calculateMiterExtensionInward(wall, point, angle) ==
    LET start == tupleToVec3(wall.start)
        end   == tupleToVec3(wall.end)
    IN  IF MiterTooSharp(angle)
        THEN calculateButtExtension(wall, point, wall.thickness)
        ELSE LET extensionDist ==
                     RAdd(RDiv(Rat(wall.thickness, 2), TanHalf(angle)),
                          Rat(MiterOverlapMargin, 1))
             IN  IF Near(wall.start, point)
                 THEN [start |-> VSub(start, SubNormalize("start", "end"),
                                      extensionDist),
                       end |-> end, wasExtended |-> TRUE]
                 ELSE IF Near(wall.end, point)
                 THEN [start |-> start,
                       end |-> VSub(end, SubNormalize("end", "start"),
                                    extensionDist),
                       wasExtended |-> TRUE]
                 ELSE [start |-> start, end |-> end, wasExtended |-> FALSE]

calculateMiterExtension(wall, point, angle) ==
    LET start == tupleToVec3(wall.start)
        end   == tupleToVec3(wall.end)
    IN  IF MiterTooSharp(angle)
        THEN calculateButtExtension(wall, point, wall.thickness)
        ELSE LET extensionDist ==
                     RAdd(RDiv(Rat(wall.thickness, 2), TanHalf(angle)),
                          Rat(MiterOverlapMargin, 1))
             IN  IF Near(wall.start, point)
                 THEN [start |-> VAdd(start, SubNormalize("start", "end"),
                                      extensionDist),
                       end |-> end, wasExtended |-> TRUE]
                 ELSE IF Near(wall.end, point)
                 THEN [start |-> start,
                       end |-> VAdd(end, SubNormalize("end", "start"),
                                    extensionDist),
                       wasExtended |-> TRUE]
                 ELSE [start |-> start, end |-> end, wasExtended |-> FALSE]

\* The longest wall; a later wall replaces an earlier one only when strictly
\* longer
RECURSIVE ExtendingFrom(_, _, _)
ExtendingFrom(ws, i, best) ==
    IF i > Len(ws) THEN best
    ELSE ExtendingFrom(ws, i + 1,
            IF WallLength(ws[i]) > WallLength(best) THEN ws[i] ELSE best)

\* Faulty variant: among equally long walls the last one wins
RECURSIVE ExtendingFromLast(_, _, _)
ExtendingFromLast(ws, i, best) ==
    IF i > Len(ws) THEN best
    ELSE ExtendingFromLast(ws, i + 1,
            IF WallLength(ws[i]) >= WallLength(best) THEN ws[i] ELSE best)

determineExtendingWallLastOnTies(ws) == ExtendingFromLast(ws, 2, ws[1])

determineExtendingWall(ws) == ExtendingFrom(ws, 2, ws[1])

\* Faulty variant: every wall starts out flagged as extended
InitialExtensionsFlagged(ws) ==
    [id \in Ids(ws) |->
        LET w == WallById(ws, id)
        IN  [wallId |-> id,
             originalStart |-> tupleToVec3(w.start),
             originalEnd   |-> tupleToVec3(w.end),
             extendedStart |-> tupleToVec3(w.start),
             extendedEnd   |-> tupleToVec3(w.end),
             wasExtended   |-> TRUE]]

\* Faulty variant: a wall for which the preceding call left a record starts
\* out flagged as extended
InitialExtensionsRemembered(ws) ==
    [id \in Ids(ws) |->
        LET w == WallById(ws, id)
        IN  [wallId |-> id,
             originalStart |-> tupleToVec3(w.start),
             originalEnd   |-> tupleToVec3(w.end),
             extendedStart |-> tupleToVec3(w.start),
             extendedEnd   |-> tupleToVec3(w.end),
             wasExtended   |-> id \in DOMAIN extensions]]

\* "Initialize all walls with no extension"
InitialExtensions(ws) ==
    [id \in Ids(ws) |->
        LET w == WallById(ws, id)
        IN  [wallId |-> id,
             originalStart |-> tupleToVec3(w.start),
             originalEnd   |-> tupleToVec3(w.end),
             extendedStart |-> tupleToVec3(w.start),
             extendedEnd   |-> tupleToVec3(w.end),
             wasExtended   |-> FALSE]]

\* Faulty variant: the automatic mapping sends every joint to the butt method
ResolveMethodAutoButt(method, jointType) ==
    IF method = "auto" THEN "butt" ELSE method

\* Faulty variant: an explicit strategy is ignored
ResolveMethodIgnoresExplicit(method, jointType) ==
    IF jointType = "L_JOINT" THEN "miter" ELSE "butt"

\* "Determine method to use"
ResolveMethod(method, jointType) ==
    IF method = "auto"
    THEN IF jointType = "L_JOINT" THEN "miter" ELSE "butt"
    ELSE method

\* The test that selects the miter branch of a connection
TakesMiterBranch(method, connection) ==
    /\ method = "miter"
    /\ connection.jointType = "L_JOINT"
    /\ Len(connection.walls) = 2

\* connectedWalls.forEach of the miter branch
RECURSIVE MiterWalls(_, _, _, _, _)
MiterWalls(ws, i, point, angle, exts) ==
    IF i > Len(ws) THEN exts
    ELSE LET wall == ws[i]
             ext  == calculateMiterExtension(wall, point, angle)
             existing == exts[wall.id]
         IN  MiterWalls(ws, i + 1, point, angle,
                IF Near(wall.start, point)
                THEN [exts EXCEPT ![wall.id] =
                        [existing EXCEPT
                            !.extendedStart = ext.start,
                            !.wasExtended = ext.wasExtended \/ existing.wasExtended]]
                ELSE IF Near(wall.end, point)
                THEN [exts EXCEPT ![wall.id] =
                        [existing EXCEPT
                            !.extendedEnd = ext.end,
                            !.wasExtended = ext.wasExtended \/ existing.wasExtended]]
                ELSE exts)

\* Faulty variant: a butting wall takes both endpoints of the computed
\* extension, not only the one at the junction
RECURSIVE ButtWallsBothEnds(_, _, _, _, _)
ButtWallsBothEnds(ws, i, point, thickness, exts) ==
    IF i > Len(ws) THEN exts
    ELSE LET wall == ws[i]
             ext  == calculateButtExtension(wall, point, thickness)
             existing == exts[wall.id]
         IN  ButtWallsBothEnds(ws, i + 1, point, thickness,
                [exts EXCEPT ![wall.id] =
                    [existing EXCEPT
                        !.extendedStart = ext.start,
                        !.extendedEnd = ext.end,
                        !.wasExtended = ext.wasExtended \/ existing.wasExtended]])

\* buttingWalls.forEach of the butt branch
RECURSIVE ButtWalls(_, _, _, _, _)
ButtWalls(ws, i, point, thickness, exts) ==
    IF i > Len(ws) THEN exts
    ELSE LET wall == ws[i]
             ext  == calculateButtExtension(wall, point, thickness)
             existing == exts[wall.id]
         IN  ButtWalls(ws, i + 1, point, thickness,
                IF Near(wall.start, point)
                THEN [exts EXCEPT ![wall.id] =
                        [existing EXCEPT
                            !.extendedStart = ext.start,
                            !.wasExtended = ext.wasExtended \/ existing.wasExtended]]
                ELSE [exts EXCEPT ![wall.id] =
                        [existing EXCEPT
                            !.extendedEnd = ext.end,
                            !.wasExtended = ext.wasExtended \/ existing.wasExtended]])

\* The butt branch of a connection: the through wall is only marked
ButtBranch(connection, exts) ==
    LET extendingWall == determineExtendingWall(connection.walls)
        buttingWalls  == SelectSeq(connection.walls,
                                   LAMBDA w : w.id # extendingWall.id)
        marked == [exts EXCEPT ![extendingWall.id].wasExtended = FALSE]
    IN  ButtWalls(buttingWalls, 1, connection.point,
                  extendingWall.thickness, marked)

MiterBranch(connection, exts) ==
    MiterWalls(connection.walls, 1, connection.point,
               calculateAngleBetweenWalls(connection.walls[1],
                                          connection.walls[2],
                                          connection.point),
               exts)

\* connectionPoints.forEach of processWallNetwork, from connection i on
RECURSIVE ProcessConnections(_, _, _, _)
ProcessConnections(cps, i, jm, exts) ==
    IF i > Len(cps) THEN exts
    ELSE LET connection == cps[i]
             method == ResolveMethod(jm, connection.jointType)
         IN  ProcessConnections(cps, i + 1, jm,
                IF connection.jointType = "NONE" THEN exts
                ELSE IF TakesMiterBranch(method, connection)
                THEN MiterBranch(connection, exts)
                ELSE ButtBranch(connection, exts))

\* One whole call of processWallNetwork
processWallNetwork(ws, jm) ==
    ProcessConnections(findConnectionPoints(ws), 1, jm, InitialExtensions(ws))

----------------------------------------------------------------------------
(* The rebuild: networks first, then the joints of each network *)

Methods == {"auto", "butt", "miter"}

\* Points at which detectJointType is called directly: the hub (0,0), three
\* grid points next to it (within tolerance of some wall starts and not of
\* others), the far end of wall 1, and a point no wall touches
ProbePoints ==
    {Pt(0, 0), Pt(1, 0), Pt(2, 0), Pt(12, 0), Pt(1, 1), Pt(30, 30)}

NoJunction ==
    [branch |-> "idle", method |-> "unset", point |-> Pt(0, 0), walls |-> <<>>,
     jointType |-> "NONE", through |-> 0, before |-> <<>>]

NoProbe == [called |-> FALSE, point |-> Pt(0, 0), jointType |-> "NONE"]

NoPrevious == [input |-> <<>>, result |-> <<>>, calls |-> 0]

\* Nothing has been assembled and the model has no doors
\* No handler of the editor has run: createInitialModel() and its history
NoEvent == [op |-> "none"]
EditorIdle ==
    /\ model = <<>>
    /\ history = << <<>> >>
    /\ historyIndex = 0
    /\ nextId = 0
    /\ event = NoEvent
    /\ cache = <<>>

AssemblerIdle ==
    /\ doors = <<>>
    /\ wallDoors = <<>>
    /\ heap = <<>>
    /\ wallGeometries = <<>>
    /\ unifiedGeometry = 0
    /\ idx = 0
    /\ networkDoors = <<>>
    /\ csgCalls = <<>>
    /\ scene = <<>>

\* What every specification starts from, the walls apart
Fresh ==
    /\ pc = "start"
    /\ networks = <<>>
    /\ net = 0
    /\ jointMethod = "auto"
    /\ extensions = <<>>
    /\ connectionPoints = <<>>
    /\ cp = 0
    /\ junction = NoJunction
    /\ probe = NoProbe
    /\ previous = NoPrevious

Init ==
    /\ walls \in WallLists
    /\ Fresh
    /\ AssemblerIdle
    /\ EditorIdle

\* buildWallNetworks(walls)
BuildWallNetworks ==
    /\ pc = "start"
    /\ networks' = buildWallNetworks(walls)
    /\ pc' = "built"
    /\ UNCHANGED <<editorVars, walls, net, jointMethod, extensions, connectionPoints, cp,
                   junction, probe, previous, assemblerVars>>

\* detectJointType(walls, point)
DetectJointTypeCall(point) ==
    /\ pc = "start"
    /\ probe' = [called |-> TRUE, point |-> point,
                 jointType |-> detectJointType(walls, point)]
    /\ pc' = "classified"
    /\ UNCHANGED <<editorVars, walls, networks, net, jointMethod, extensions,
                   connectionPoints, cp, junction, previous, assemblerVars>>

\* processWallNetwork(network.walls, method), up to the loop over the
\* connection points
EnterProcessWallNetwork(method) ==
    /\ pc = "built"
    /\ net < Len(networks)
    /\ net' = net + 1
    /\ jointMethod' = method
    /\ extensions' = InitialExtensions(networks[net + 1].walls)
    /\ connectionPoints' = findConnectionPoints(networks[net + 1].walls)
    /\ cp' = 1
    /\ junction' = NoJunction
    /\ previous' = [input |-> networks[net + 1].walls, result |-> <<>>,
                    calls |-> 1]
    /\ pc' = "joints"
    /\ UNCHANGED <<editorVars, walls, networks, probe, assemblerVars>>

\* processWallNetwork called once more on the walls and with the strategy of
\* the call that has just returned
CallAgain ==
    /\ pc = "built"
    /\ net > 0
    /\ previous.calls < MaxCalls
    /\ previous' = [input |-> previous.input, result |-> extensions,
                    calls |-> previous.calls + 1]
    /\ extensions' = InitialExtensions(networks[net].walls)
    /\ connectionPoints' = findConnectionPoints(networks[net].walls)
    /\ cp' = 1
    /\ junction' = NoJunction
    /\ pc' = "joints"
    /\ UNCHANGED <<editorVars, walls, networks, net, jointMethod, probe, assemblerVars>>

\* One iteration of connectionPoints.forEach
ProcessConnection ==
    /\ pc = "joints"
    /\ cp <= Len(connectionPoints)
    /\ LET connection == connectionPoints[cp]
           method == ResolveMethod(jointMethod, connection.jointType)
           seen == [point |-> connection.point, walls |-> connection.walls,
                    jointType |-> connection.jointType, before |-> extensions]
       IN  IF connection.jointType = "NONE"
           THEN /\ junction' = seen @@ [branch |-> "none", method |-> "unset",
                                        through |-> 0]
                /\ UNCHANGED extensions
           ELSE IF TakesMiterBranch(method, connection)
           THEN /\ junction' = seen @@ [branch |-> "miter", method |-> method,
                                        through |-> 0]
                /\ extensions' = MiterBranch(connection, extensions)
           ELSE /\ junction' =
                      seen @@ [branch |-> "butt", method |-> method,
                               through |->
                                   determineExtendingWall(connection.walls).id]
                /\ extensions' = ButtBranch(connection, extensions)
    /\ cp' = cp + 1
    /\ UNCHANGED <<editorVars, walls, pc, networks, net, jointMethod, connectionPoints,
                   probe, previous, assemblerVars>>

\* return extensions
ReturnExtensions ==
    /\ pc = "joints"
    /\ cp > Len(connectionPoints)
    /\ pc' = "built"
    /\ UNCHANGED <<editorVars, walls, networks, net, jointMethod, extensions,
                   connectionPoints, cp, junction, probe, previous,
                   assemblerVars>>

Next ==
    \/ BuildWallNetworks
    \/ \E point \in ProbePoints : DetectJointTypeCall(point)
    \/ \E method \in Methods : EnterProcessWallNetwork(method)
    \/ ProcessConnection
    \/ ReturnExtensions

Spec == Init /\ [][Next]_vars

\* The same walls resolved again and again with the same strategy
InitRepeat ==
    /\ walls \in { ws \in WallLists : Len(ws) <= MaxRepeatWalls }
    /\ Fresh
    /\ AssemblerIdle
    /\ EditorIdle

NextRepeat ==
    \/ BuildWallNetworks
    \/ \E method \in Methods : EnterProcessWallNetwork(method)
    \/ ProcessConnection
    \/ ReturnExtensions
    \/ CallAgain

SpecRepeat == InitRepeat /\ [][NextRepeat]_vars

----------------------------------------------------------------------------
(* BIMProperties.tsx, rebuildScene: the meshes of the networks. A geometry is
   what it is made of: the wall boxes and door cutters united into it (solid)
   and the cutters subtracted from it (removed). The heap holds every geometry
   created, with the number of dispose() calls it has received. No element is
   selected. *)

\* A parentWallId that is the id of no wall
NoWall == 0

\* The walls of the models that are assembled: 1, 2 and 8 can form one
\* network, wall 4 touches none of them
AsmWallIds == {1, 2, 4, 8}

\* A door with its offsetOnWall and its geometry.position
PlacedDoor(i, parent, offset, position) ==
    [id |-> i, parentWallId |-> parent, offsetOnWall |-> offset,
     position |-> position]

\* A door whose placement plays no part: at the origin
Door(i, parent) == PlacedDoor(i, parent, RZero, tupleToVec3(Pt(0, 0)))

Geometry(solid, removed) == [solid |-> solid, removed |-> removed, disposed |-> 0]

\* createWallGeometry, moved between the extended endpoints of the wall
createWallGeometry(wall, ext) ==
    Geometry({[wall |-> wall.id, start |-> ext.extendedStart,
               end |-> ext.extendedEnd, thickness |-> wall.thickness]}, {})

\* createDoorCutterGeometry: a box 1.2 times as deep as the wall is thick
createDoorCutterGeometry(door, wallThickness) ==
    Geometry({[door |-> door.id, depth |-> (wallThickness * 12) \div 10]}, {})

\* cutterGeometry.applyMatrix4(cutterMatrix): the cutter moved to the door's
\* stored position
PlaceCutter(geometry, door) ==
    [geometry EXCEPT
        !.solid = { [door |-> piece.door, depth |-> piece.depth,
                     position |-> door.position] : piece \in @ }]

\* What a successful performBoolean returns
BooleanResult(geom1, geom2, operation) ==
    IF operation = "union"
    THEN Geometry(geom1.solid \cup geom2.solid, geom1.removed \cup geom2.removed)
    ELSE Geometry(geom1.solid, geom1.removed \cup geom2.solid)

\* geometry.dispose()
Dispose(h, handle) == [h EXCEPT ![handle].disposed = @ + 1]

\* The doors of the model and the walls' door lists: a door whose parent wall
\* exists is named by that wall; a door whose parentWallId is the id of no
\* wall is named by the first wall of the model or by none
InitDoors ==
    \E n \in 0..MaxDoors :
        \E parent \in [1..n -> Ids(walls) \cup {NoWall}] :
            \E listed \in [1..n -> BOOLEAN] :
                /\ doors = [i \in 1..n |-> Door(i, parent[i])]
                /\ wallDoors =
                      [id \in Ids(walls) |->
                          { i \in 1..n :
                              IF parent[i] \in Ids(walls) THEN parent[i] = id
                              ELSE listed[i] /\ id = walls[1].id }]

InitAssemble ==
    /\ walls \in { ws \in WallLists :
                      Len(ws) <= MaxAsmWalls /\ Ids(ws) \subseteq AsmWallIds }
    /\ Fresh
    /\ EditorIdle
    /\ InitDoors
    /\ heap = <<>>
    /\ wallGeometries = <<>>
    /\ unifiedGeometry = 0
    /\ idx = 0
    /\ networkDoors = <<>>
    /\ csgCalls = <<>>
    /\ scene = <<>>

jointVars == <<jointMethod, connectionPoints, cp, junction, probe, previous>>

\* rebuildScene up to the loop over the networks
RebuildScene ==
    /\ pc = "start"
    /\ scene' = <<>>
    /\ networks' = buildWallNetworks(walls)
    /\ pc' = "networks"
    /\ UNCHANGED <<editorVars, walls, net, extensions, jointVars, doors, wallDoors, heap,
                   wallGeometries, unifiedGeometry, idx, networkDoors, csgCalls>>

\* wallNetworks.forEach: the extensions and the wall geometries of a network
BeginNetwork ==
    /\ pc = "networks"
    /\ net < Len(networks)
    /\ LET network == networks[net + 1]
           exts == processWallNetwork(network.walls, "auto")
           created == [i \in 1..Len(network.walls) |->
                          createWallGeometry(network.walls[i],
                                             exts[network.walls[i].id])]
       IN  /\ extensions' = exts
           /\ heap' = heap \o created
           /\ wallGeometries' =
                 [i \in 1..Len(network.walls) |-> Len(heap) + i]
           /\ unifiedGeometry' = Len(heap) + 1
    /\ net' = net + 1
    /\ idx' = 2
    /\ networkDoors' = <<>>
    /\ pc' = "union"
    /\ UNCHANGED <<editorVars, walls, networks, jointVars, doors, wallDoors, csgCalls,
                   scene>>

\* Faulty variant: the union loop ends at the first failed union
UnionStepStopsOnFailure ==
    /\ pc = "union"
    /\ idx <= Len(wallGeometries)
    /\ \E ok \in BOOLEAN :
          LET operand == wallGeometries[idx]
              result == Len(heap) + 1
              made == IF ok
                      THEN Append(heap, BooleanResult(heap[unifiedGeometry],
                                                      heap[operand], "union"))
                      ELSE heap
              superseded == IF ok /\ idx - 1 > 1
                            THEN Dispose(made, unifiedGeometry)
                            ELSE made
          IN  /\ csgCalls' = Append(csgCalls,
                    [operation |-> "union", geom1 |-> unifiedGeometry,
                     geom2 |-> operand, result |-> IF ok THEN result ELSE 0])
              /\ heap' = Dispose(superseded, operand)
              /\ unifiedGeometry' = IF ok THEN result ELSE unifiedGeometry
              /\ idx' = IF ok THEN idx + 1 ELSE Len(wallGeometries) + 1
    /\ UNCHANGED <<editorVars, walls, pc, networks, net, extensions, jointVars, doors,
                   wallDoors, wallGeometries, networkDoors, scene>>

\* Faulty variant: the running geometry is released whether or not the union
\* succeeded
UnionStepDisposesAlways ==
    /\ pc = "union"
    /\ idx <= Len(wallGeometries)
    /\ \E ok \in BOOLEAN :
          LET operand == wallGeometries[idx]
              result == Len(heap) + 1
              made == IF ok
                      THEN Append(heap, BooleanResult(heap[unifiedGeometry],
                                                      heap[operand], "union"))
                      ELSE heap
              superseded == IF idx - 1 > 1
                            THEN Dispose(made, unifiedGeometry)
                            ELSE made
          IN  /\ csgCalls' = Append(csgCalls,
                    [operation |-> "union", geom1 |-> unifiedGeometry,
                     geom2 |-> operand, result |-> IF ok THEN result ELSE 0])
              /\ heap' = Dispose(superseded, operand)
              /\ unifiedGeometry' = IF ok THEN result ELSE unifiedGeometry
    /\ idx' = idx + 1
    /\ UNCHANGED <<editorVars, walls, pc, networks, net, extensions, jointVars, doors,
                   wallDoors, wallGeometries, networkDoors, scene>>

\* One iteration of the union loop; idx is the loop's i plus one
UnionStep ==
    /\ pc = "union"
    /\ idx <= Len(wallGeometries)
    /\ \E ok \in BOOLEAN :
          LET operand == wallGeometries[idx]
              result == Len(heap) + 1
              made == IF ok
                      THEN Append(heap, BooleanResult(heap[unifiedGeometry],
                                                      heap[operand], "union"))
                      ELSE heap
              superseded == IF ok /\ idx - 1 > 1
                            THEN Dispose(made, unifiedGeometry)
                            ELSE made
          IN  /\ csgCalls' = Append(csgCalls,
                    [operation |-> "union", geom1 |-> unifiedGeometry,
                     geom2 |-> operand, result |-> IF ok THEN result ELSE 0])
              /\ heap' = Dispose(superseded, operand)
              /\ unifiedGeometry' = IF ok THEN result ELSE unifiedGeometry
    /\ idx' = idx + 1
    /\ UNCHANGED <<editorVars, walls, pc, networks, net, extensions, jointVars, doors,
                   wallDoors, wallGeometries, networkDoors, scene>>

\* Faulty variant: the doors are subtracted as soon as one union has been
\* attempted
BeginDoorsBeforeFoldEnds ==
    /\ pc = "union"
    /\ idx > 2 \/ idx > Len(wallGeometries)
    /\ unifiedGeometry # 0
    /\ LET networkDoorIds == UNION { wallDoors[id] : id \in networks[net].wallIds }
       IN  networkDoors' = SelectSeq(doors, LAMBDA d : d.id \in networkDoorIds)
    /\ idx' = 1
    /\ pc' = "doors"
    /\ UNCHANGED <<editorVars, walls, networks, net, extensions, jointVars, doors,
                   wallDoors, heap, wallGeometries, unifiedGeometry, csgCalls,
                   scene>>

\* networkDoors: the doors named by the walls of the network, in model order
BeginDoors ==
    /\ pc = "union"
    /\ idx > Len(wallGeometries)
    /\ unifiedGeometry # 0
    /\ LET networkDoorIds == UNION { wallDoors[id] : id \in networks[net].wallIds }
       IN  networkDoors' = SelectSeq(doors, LAMBDA d : d.id \in networkDoorIds)
    /\ idx' = 1
    /\ pc' = "doors"
    /\ UNCHANGED <<editorVars, walls, networks, net, extensions, jointVars, doors,
                   wallDoors, heap, wallGeometries, unifiedGeometry, csgCalls,
                   scene>>

\* Faulty variant: the door loop ends at the first failed difference
DoorStepStopsOnFailure ==
    /\ pc = "doors"
    /\ idx <= Len(networkDoors)
    /\ LET door == networkDoors[idx]
           network == networks[net]
       IN  IF door.parentWallId \notin Ids(network.walls)
           THEN /\ UNCHANGED <<heap, unifiedGeometry, csgCalls>>
                /\ idx' = idx + 1
           ELSE \E ok \in BOOLEAN :
                  LET parentWall == WallById(network.walls, door.parentWallId)
                      cutter == Len(heap) + 1
                      result == Len(heap) + 2
                      cut == Append(heap, PlaceCutter(
                                 createDoorCutterGeometry(
                                     door, parentWall.thickness), door))
                      made == IF ok
                              THEN Dispose(
                                     Append(cut, BooleanResult(
                                         cut[unifiedGeometry], cut[cutter],
                                         "difference")),
                                     unifiedGeometry)
                              ELSE cut
                  IN  /\ csgCalls' = Append(csgCalls,
                            [operation |-> "difference",
                             geom1 |-> unifiedGeometry, geom2 |-> cutter,
                             result |-> IF ok THEN result ELSE 0])
                      /\ heap' = Dispose(made, cutter)
                      /\ unifiedGeometry' = IF ok THEN result ELSE unifiedGeometry
                      /\ idx' = IF ok THEN idx + 1 ELSE Len(networkDoors) + 1
    /\ UNCHANGED <<editorVars, walls, pc, networks, net, extensions, jointVars, doors,
                   wallDoors, wallGeometries, networkDoors, scene>>

\* Faulty variant: a door whose offset exceeds the length of its wall is
\* skipped
DoorStepRejectsOutOfRange ==
    /\ pc = "doors"
    /\ idx <= Len(networkDoors)
    /\ LET door == networkDoors[idx]
           network == networks[net]
       IN  IF \/ door.parentWallId \notin Ids(network.walls)
              \/ RLess(Rat(WallLength(WallById(network.walls,
                                               door.parentWallId)), 1),
                       door.offsetOnWall)
           THEN UNCHANGED <<heap, unifiedGeometry, csgCalls>>
           ELSE \E ok \in BOOLEAN :
                  LET parentWall == WallById(network.walls, door.parentWallId)
                      cutter == Len(heap) + 1
                      result == Len(heap) + 2
                      cut == Append(heap, PlaceCutter(
                                 createDoorCutterGeometry(
                                     door, parentWall.thickness), door))
                      made == IF ok
                              THEN Dispose(
                                     Append(cut, BooleanResult(
                                         cut[unifiedGeometry], cut[cutter],
                                         "difference")),
                                     unifiedGeometry)
                              ELSE cut
                  IN  /\ csgCalls' = Append(csgCalls,
                            [operation |-> "difference",
                             geom1 |-> unifiedGeometry, geom2 |-> cutter,
                             result |-> IF ok THEN result ELSE 0])
                      /\ heap' = Dispose(made, cutter)
                      /\ unifiedGeometry' = IF ok THEN result ELSE unifiedGeometry
    /\ idx' = idx + 1
    /\ UNCHANGED <<editorVars, walls, pc, networks, net, extensions, jointVars, doors,
                   wallDoors, wallGeometries, networkDoors, scene>>

\* One iteration of the loop over networkDoors
DoorStep ==
    /\ pc = "doors"
    /\ idx <= Len(networkDoors)
    /\ LET door == networkDoors[idx]
           network == networks[net]
       IN  IF door.parentWallId \notin Ids(network.walls)
           THEN UNCHANGED <<heap, unifiedGeometry, csgCalls>>
           ELSE \E ok \in BOOLEAN :
                  LET parentWall == WallById(network.walls, door.parentWallId)
                      cutter == Len(heap) + 1
                      result == Len(heap) + 2
                      cut == Append(heap, PlaceCutter(
                                 createDoorCutterGeometry(
                                     door, parentWall.thickness), door))
                      made == IF ok
                              THEN Dispose(
                                     Append(cut, BooleanResult(
                                         cut[unifiedGeometry], cut[cutter],
                                         "difference")),
                                     unifiedGeometry)
                              ELSE cut
                  IN  /\ csgCalls' = Append(csgCalls,
                            [operation |-> "difference",
                             geom1 |-> unifiedGeometry, geom2 |-> cutter,
                             result |-> IF ok THEN result ELSE 0])
                      /\ heap' = Dispose(made, cutter)
                      /\ unifiedGeometry' = IF ok THEN result ELSE unifiedGeometry
    /\ idx' = idx + 1
    /\ UNCHANGED <<editorVars, walls, pc, networks, net, extensions, jointVars, doors,
                   wallDoors, wallGeometries, networkDoors, scene>>

\* The mesh of the network, tagged with the ids of its walls
AddNetworkMesh ==
    /\ pc = "doors"
    /\ idx > Len(networkDoors)
    /\ scene' = Append(scene,
          [elementType |-> "wall", geometry |-> unifiedGeometry,
           wallIds |-> networks[net].wallIds, isNetwork |-> TRUE])
    /\ pc' = "networks"
    /\ UNCHANGED <<editorVars, walls, networks, net, extensions, jointVars, doors,
                   wallDoors, heap, wallGeometries, unifiedGeometry, idx,
                   networkDoors, csgCalls>>

\* Faulty variant: a door object for every door of the model
AddDoorObjectsForAll ==
    /\ pc = "networks"
    /\ net = Len(networks)
    /\ scene' = scene \o
          [i \in 1..Len(doors) |->
              [elementType |-> "door", elementId |-> doors[i].id]]
    /\ pc' = "done"
    /\ UNCHANGED <<editorVars, walls, networks, net, extensions, jointVars, doors,
                   wallDoors, heap, wallGeometries, unifiedGeometry, idx,
                   networkDoors, csgCalls>>

\* doors.forEach: a door object for every door whose parent wall exists
AddDoorObjects ==
    /\ pc = "networks"
    /\ net = Len(networks)
    /\ LET hosted == SelectSeq(doors, LAMBDA d : d.parentWallId \in Ids(walls))
       IN  scene' = scene \o
              [i \in 1..Len(hosted) |->
                  [elementType |-> "door", elementId |-> hosted[i].id]]
    /\ pc' = "done"
    /\ UNCHANGED <<editorVars, walls, networks, net, extensions, jointVars, doors,
                   wallDoors, heap, wallGeometries, unifiedGeometry, idx,
                   networkDoors, csgCalls>>

NextAssemble ==
    \/ RebuildScene
    \/ BeginNetwork
    \/ UnionStep
    \/ BeginDoors
    \/ DoorStep
    \/ AddNetworkMesh
    \/ AddDoorObjects

SpecAssemble == InitAssemble /\ [][NextAssemble]_vars

(* Rebuilds of the models an editing session can hold. After an undo onto the
   snapshot between the two mutations of handleDoorPlace or
   handleElementDelete a door is in the model that its parent wall does not
   name; importJSON accepts a door whose offsetOnWall exceeds the length of
   its wall and whose position is anywhere. *)

\* Doors of such a model
MaxEditedDoors == 2

\* Walls 1 and 2 form one network, walls 1 and 4 two
EditedWallLists ==
    { << Catalogue[1] >>,
      << Catalogue[1], Catalogue[2] >>,
      << Catalogue[1], Catalogue[4] >> }

\* offsetOnWall and position of a door on a wall: inside the wall as placed
\* by the door tool, beyond the wall's end with the position at that offset,
\* beyond the wall's end with the position inside the wall
Placements(wall) ==
    LET inside == Rat(WallLength(wall) \div 2, 1)
        beyond == Rat(WallLength(wall) + 8, 1)
    IN  << [offset |-> inside, position |-> PointAtOffset(wall, inside)],
           [offset |-> beyond, position |-> PointAtOffset(wall, beyond)],
           [offset |-> beyond, position |-> PointAtOffset(wall, inside)] >>

InitEditedDoors ==
    \E n \in 0..MaxEditedDoors :
        \E parent \in [1..n -> Ids(walls)] :
            \E listed \in [1..n -> BOOLEAN] :
                \E place \in [1..n -> 1..3] :
                    /\ doors =
                          [i \in 1..n |->
                              LET placement ==
                                      Placements(WallById(walls, parent[i]))
                                                [place[i]]
                              IN  PlacedDoor(i, parent[i], placement.offset,
                                             placement.position)]
                    /\ wallDoors =
                          [id \in Ids(walls) |->
                              { i \in 1..n : parent[i] = id /\ listed[i] }]

InitAssembleEdited ==
    /\ walls \in EditedWallLists
    /\ Fresh
    /\ EditorIdle
    /\ InitEditedDoors
    /\ heap = <<>>
    /\ wallGeometries = <<>>
    /\ unifiedGeometry = 0
    /\ idx = 0
    /\ networkDoors = <<>>
    /\ csgCalls = <<>>
    /\ scene = <<>>

SpecAssembleEdited == InitAssembleEdited /\ [][NextAssemble]_vars

----------------------------------------------------------------------------
(* useBIMState and BIMEditor: the model store with its undo history, and the
   editor's handlers. One action is one event handler together with the
   render that follows it: every state update a handler issues is applied
   before the next handler runs, and the callbacks a handler uses were closed
   over the state of the render before it. *)

Min(a, b) == IF a < b THEN a ELSE b

\* Snapshots kept by saveToHistory, and the largest historyIndex it sets
HistoryLimit == 50
LastHistoryIndex == 49

\* DEFAULT_EDITOR_SETTINGS: grid size, wall height and thickness, door width
\* and height
GridSize == 20
DefaultWallHeight == 600
DefaultThickness == 40
DefaultDoorWidth == Rat(914, 5)
DefaultDoorHeight == Rat(2032, 5)

\* Everything but the editor's state
rebuildVars == <<walls, pc, networks, net, extensions, jointVars,
                 assemblerVars>>

\* The three pieces of state of useBIMState
Store == [model |-> model, history |-> history, historyIndex |-> historyIndex]

\* The render after a handler: the queued state updates have been applied
Render(st) ==
    /\ model' = st.model
    /\ history' = st.history
    /\ historyIndex' = st.historyIndex

\* What setModel(undefined) leaves in the model: no list of elements
Undefined == << [type |-> "undefined"] >>

\* saveToHistory(newModel), created in a render whose historyIndex was
\* closedIndex: the slice uses the closed-over index, the index update the
\* pending one
saveToHistory(st, newModel, closedIndex) ==
    LET kept == SubSeq(st.history, 1, Min(closedIndex + 1, Len(st.history)))
        newHistory == Append(kept, newModel)
    IN  [st EXCEPT
            !.history = IF Len(newHistory) > HistoryLimit
                        THEN Tail(newHistory) ELSE newHistory,
            !.historyIndex = Min(@ + 1, LastHistoryIndex)]

\* The setModel updater of a mutation: the new model is saved and returned
Commit(st, newModel, closedIndex) ==
    saveToHistory([st EXCEPT !.model = newModel], newModel, closedIndex)

\* { ...el, ...updates }
Spread(el, updates) ==
    [f \in DOMAIN el \cup DOMAIN updates |->
        IF f \in DOMAIN updates THEN updates[f] ELSE el[f]]

ElementIds(elements) == { elements[i].id : i \in 1..Len(elements) }

\* elements.find(el => el.id === id), for an id that is there
Find(elements, id) ==
    elements[CHOOSE i \in 1..Len(elements) : elements[i].id = id]

isWall(el) == el.type = "wall"
isDoor(el) == el.type = "door"

addElement(st, element, closedIndex) ==
    Commit(st, Append(st.model, element), closedIndex)

updateElement(st, id, updates, closedIndex) ==
    Commit(st,
           [i \in 1..Len(st.model) |->
               IF st.model[i].id = id THEN Spread(st.model[i], updates)
               ELSE st.model[i]],
           closedIndex)

\* Faulty variant: a removed wall's doors stay in the model
elementsToRemoveIdOnly(elements, id) == {id}

\* The ids removeElement(id) removes: the element's, and for a wall those
\* in its doors list
elementsToRemove(elements, id) ==
    IF id \in ElementIds(elements) /\ isWall(Find(elements, id))
    THEN {id} \cup { Find(elements, id).doors[k] :
                        k \in 1..Len(Find(elements, id).doors) }
    ELSE {id}

removeElement(st, id, closedIndex) ==
    Commit(st,
           SelectSeq(st.model,
               LAMBDA el : el.id \notin elementsToRemove(st.model, id)),
           closedIndex)

\* handleWallCreate's new wall
NewWall(id, segment, thickness) ==
    [id |-> id, type |-> "wall", start |-> segment.start,
     end |-> segment.end, thickness |-> thickness, doors |-> <<>>,
     geometry |-> [dimensions |-> [height |-> DefaultWallHeight]]]

----------------------------------------------------------------------------
(* BIMCanvas, handleCanvasClick with the door tool: the door placed by a click
   at point on the mesh of wall *)

RMin(a, b) == IF RLess(a, b) THEN a ELSE b
RMax(a, b) == IF RLess(a, b) THEN b ELSE a

\* Math.round
Round(r) == (2 * r.n + r.d) \div (2 * r.d)

\* a.distanceTo(b) for two points on the line of one wall
distanceTo(a, b) == RAbs(RSub(a.off, b.off))

\* v.dot(wallDirection): the projection of point on the wall's line
Projection(wall, point) ==
    Rat((point.x - wall.start.x) * (wall.end.x - wall.start.x)
            + (point.z - wall.start.z) * (wall.end.z - wall.start.z),
        WallLength(wall))

\* Faulty variant: without the grid the projection is not clamped
DoorDataUnclamped(wall, point, gridEnabled, doorWidth, doorHeight) ==
    LET wallStart == tupleToVec3(wall.start)
        wallDirection == SubNormalize("end", "start")
        dist == Projection(wall, point)
        snappedDist == Rat(Round(RDiv(dist, Rat(GridSize, 1))) * GridSize, 1)
        wallLength == Rat(WallLength(wall), 1)
        clampedDist == IF gridEnabled
                       THEN RMax(RZero, RMin(wallLength, snappedDist))
                       ELSE dist
        projectedPoint == VAdd(wallStart, wallDirection, clampedDist)
    IN  [parentWallId |-> wall.id,
         offsetOnWall |-> distanceTo(projectedPoint, wallStart),
         geometry |->
            [position |-> projectedPoint,
             dimensions |-> [width |-> doorWidth, height |-> doorHeight,
                             depth |-> wall.thickness]]]

\* The argument of onDoorPlace
DoorData(wall, point, gridEnabled, doorWidth, doorHeight) ==
    LET wallStart == tupleToVec3(wall.start)
        wallDirection == SubNormalize("end", "start")
        dist == Projection(wall, point)
        snappedDist == Rat(Round(RDiv(dist, Rat(GridSize, 1))) * GridSize, 1)
        wallLength == Rat(WallLength(wall), 1)
        clampedDist == RMax(RZero, RMin(wallLength,
                            IF gridEnabled THEN snappedDist ELSE dist))
        projectedPoint == VAdd(wallStart, wallDirection, clampedDist)
    IN  [parentWallId |-> wall.id,
         offsetOnWall |-> distanceTo(projectedPoint, wallStart),
         geometry |->
            [position |-> projectedPoint,
             dimensions |-> [width |-> doorWidth, height |-> doorHeight,
                             depth |-> wall.thickness]]]

\* handleDoorPlace, from a render that showed elements: the door is added,
\* then the parent wall's doors list is replaced
handleDoorPlace(st, elements, doorData, id, closedIndex) ==
    LET newDoor == Spread(doorData, [id |-> id, type |-> "door"])
        added == addElement(st, newDoor, closedIndex)
    IN  IF /\ doorData.parentWallId \in ElementIds(elements)
           /\ isWall(Find(elements, doorData.parentWallId))
        THEN updateElement(added, doorData.parentWallId,
                 [doors |-> Append(Find(elements, doorData.parentWallId).doors,
                                   id)],
                 closedIndex)
        ELSE added

\* handleElementDelete(elementId), from a render that showed elements
handleElementDelete(st, elements, elementId, closedIndex) ==
    LET element == Find(elements, elementId)
        hosted == /\ isDoor(element)
                  /\ element.parentWallId \in ElementIds(elements)
                  /\ isWall(Find(elements, element.parentWallId))
        unlisted ==
            IF hosted
            THEN updateElement(st, element.parentWallId,
                     [doors |-> SelectSeq(
                                   Find(elements, element.parentWallId).doors,
                                   LAMBDA doorId : doorId # elementId)],
                     closedIndex)
            ELSE st
    IN  removeElement(unlisted, elementId, closedIndex)

----------------------------------------------------------------------------
(* The editor's handlers as actions *)

\* Bounds of the editing sessions: ids handed out, and snapshots in the
\* history beyond which no further mutation is made
MaxIds == 3
MaxSnapshots == 5

\* The segments a wall is drawn on: lengths 400 and 400, meeting at (0,0)
Segment(s, e) == [start |-> s, end |-> e]
DrawnSegments ==
    { Segment(Pt(0, 0), Pt(400, 0)), Segment(Pt(0, 0), Pt(240, 320)) }

\* The thicknesses typed into the properties panel
PanelThicknesses == { DefaultThickness, 50 }

\* Where the door tool is clicked in an editing session, with the grid on
EditorClicks == { Pt(130, 0) }

\* The model can be rendered and the session may still grow
Editable == model # Undefined /\ Len(history) < MaxSnapshots

WallIdsOf(elements) ==
    { elements[i].id : i \in { j \in 1..Len(elements) : isWall(elements[j]) } }

HandleWallCreate(segment) ==
    /\ Editable
    /\ nextId < MaxIds
    /\ Render(addElement(Store,
                         NewWall(nextId + 1, segment, DefaultThickness),
                         historyIndex))
    /\ nextId' = nextId + 1
    /\ event' = [op |-> "handleWallCreate", id |-> nextId + 1]
    /\ UNCHANGED <<cache, rebuildVars>>

HandleCanvasClick(wallId, point, gridEnabled) ==
    /\ Editable
    /\ nextId < MaxIds
    /\ wallId \in WallIdsOf(model)
    /\ Render(handleDoorPlace(Store, model,
                  DoorData(Find(model, wallId), point, gridEnabled,
                           DefaultDoorWidth, DefaultDoorHeight),
                  nextId + 1, historyIndex))
    /\ nextId' = nextId + 1
    /\ event' = [op |-> "handleCanvasClick", id |-> nextId + 1,
                 wall |-> wallId, point |-> point,
                 gridEnabled |-> gridEnabled]
    /\ UNCHANGED <<cache, rebuildVars>>

HandleElementUpdate(elementId, updates) ==
    /\ Editable
    /\ elementId \in ElementIds(model)
    /\ Render(updateElement(Store, elementId, updates, historyIndex))
    /\ event' = [op |-> "handleElementUpdate", id |-> elementId]
    /\ UNCHANGED <<nextId, cache, rebuildVars>>

HandleElementDelete(elementId) ==
    /\ Editable
    /\ elementId \in ElementIds(model)
    /\ Render(handleElementDelete(Store, model, elementId, historyIndex))
    /\ event' = [op |-> "handleElementDelete", id |-> elementId]
    /\ UNCHANGED <<nextId, cache, rebuildVars>>

\* history[i] of the array
HistoryAt(i) == IF i + 1 \in DOMAIN history THEN history[i + 1] ELSE Undefined

Undo ==
    /\ model # Undefined
    /\ historyIndex > 0
    /\ historyIndex' = historyIndex - 1
    /\ model' = HistoryAt(historyIndex - 1)
    /\ event' = [op |-> "undo"]
    /\ UNCHANGED <<history, nextId, cache, rebuildVars>>

Redo ==
    /\ model # Undefined
    /\ historyIndex < Len(history) - 1
    /\ historyIndex' = historyIndex + 1
    /\ model' = HistoryAt(historyIndex + 1)
    /\ event' = [op |-> "redo"]
    /\ UNCHANGED <<history, nextId, cache, rebuildVars>>

ClearModel ==
    /\ model # Undefined
    /\ model' = <<>>
    /\ history' = << <<>> >>
    /\ historyIndex' = 0
    /\ event' = [op |-> "clearModel"]
    /\ UNCHANGED <<nextId, cache, rebuildVars>>

\* A model exported by an earlier session: a wall with a door placed on it
ImportedModels ==
    { << Spread(NewWall(101, Segment(Pt(0, 0), Pt(400, 0)), DefaultThickness),
                [doors |-> <<102>>]),
         Spread(DoorData(NewWall(101, Segment(Pt(0, 0), Pt(400, 0)),
                                 DefaultThickness),
                         Pt(200, 0), TRUE, DefaultDoorWidth,
                         DefaultDoorHeight),
                [id |-> 102, type |-> "door"]) >> }

ImportJSON(imported) ==
    /\ model # Undefined
    /\ model' = imported
    /\ history' = << imported >>
    /\ historyIndex' = 0
    /\ event' = [op |-> "importJSON"]
    /\ UNCHANGED <<nextId, cache, rebuildVars>>

InitEditor ==
    /\ walls = <<>>
    /\ Fresh
    /\ AssemblerIdle
    /\ EditorIdle

NextEditor ==
    \/ \E segment \in DrawnSegments : HandleWallCreate(segment)
    \/ \E wallId \in 1..MaxIds, point \in EditorClicks :
          HandleCanvasClick(wallId, point, TRUE)
    \/ \E wallId \in 1..MaxIds, thickness \in PanelThicknesses :
          /\ wallId \in WallIdsOf(model)
          /\ HandleElementUpdate(wallId, [thickness |-> thickness])
    \/ \E elementId \in 1..MaxIds : HandleElementDelete(elementId)
    \/ Undo
    \/ Redo
    \/ ClearModel
    \/ \E imported \in ImportedModels : ImportJSON(imported)

SpecEditor == InitEditor /\ [][NextEditor]_vars

\* Door placement on one wall: the wall lies on a drawn segment or on the
\* segment of a wall of the catalogue, and the door tool is clicked anywhere
\* near it, with the grid on or off
PlacementSegments ==
    DrawnSegments
        \cup { Segment(Catalogue[i].start, Catalogue[i].end) : i \in WallIds }

ClickPoints ==
    { Pt(x, z) : x \in {0 - 30, 0, 6, 10, 130, 410}, z \in {0 - 10, 0, 3} }

InitPlace ==
    /\ walls = <<>>
    /\ Fresh
    /\ AssemblerIdle
    /\ \E segment \in PlacementSegments :
          /\ model = << NewWall(1, segment, DefaultThickness) >>
          /\ history = << <<>>, model >>
    /\ historyIndex = 1
    /\ nextId = 1
    /\ event = [op |-> "handleWallCreate", id |-> 1]
    /\ cache = <<>>

NextPlace ==
    \E point \in ClickPoints, gridEnabled \in BOOLEAN :
        HandleCanvasClick(1, point, gridEnabled)

SpecPlace == InitPlace /\ [][NextPlace]_vars

----------------------------------------------------------------------------
(* ConstraintEngine and useValidation: validateElement with its cache. Of the
   registered rules the two door rules that read the parent wall are
   evaluated: door-edge-clearance and door-height-constraint. *)

\* minClearance of the edge clearance rule, headerClearance of the height rule
MinClearance == 50
HeaderClearance == 100

\* The wall heights typed into the properties panel
PanelHeights == { DefaultWallHeight, 480 }

Half(r) == RDiv(r, Rat(2, 1))

\* context.walls.find(w => w.id === door.parentWallId) finds a wall
HasParent(door, context) ==
    \E i \in 1..Len(context.walls) : context.walls[i].id = door.parentWallId

DoorEdgeClearanceRule(door, context) ==
    IF ~HasParent(door, context)
    THEN [ruleId |-> "door-edge-clearance", passed |-> FALSE,
          message |-> "Door parent wall not found"]
    ELSE LET wall == Find(context.walls, door.parentWallId)
             wallLength == Rat(WallLength(wall), 1)
             doorWidth == door.geometry.dimensions.width
             clearanceStart == RSub(door.offsetOnWall, Half(doorWidth))
             clearanceEnd ==
                 RSub(wallLength, RAdd(door.offsetOnWall, Half(doorWidth)))
             minClearance == Rat(MinClearance, 1)
         IN  [ruleId |-> "door-edge-clearance",
              passed |-> /\ ~RLess(clearanceStart, minClearance)
                         /\ ~RLess(clearanceEnd, minClearance),
              clearanceStart |-> clearanceStart,
              clearanceEnd |-> clearanceEnd]

DoorHeightConstraintRule(door, context) ==
    IF ~HasParent(door, context)
    THEN [ruleId |-> "door-height-constraint", passed |-> FALSE,
          message |-> "Parent wall not found"]
    ELSE LET wall == Find(context.walls, door.parentWallId)
             doorHeight == door.geometry.dimensions.height
             wallHeight == wall.geometry.dimensions.height
             maxDoorHeight == Rat(wallHeight - HeaderClearance, 1)
         IN  [ruleId |-> "door-height-constraint",
              passed |-> ~RLess(maxDoorHeight, doorHeight),
              doorHeight |-> doorHeight,
              wallHeight |-> wallHeight]

\* The uncached part of validateElement: every applicable rule, in the order
\* of registration
Evaluate(element, context) ==
    IF isDoor(element)
    THEN << DoorEdgeClearanceRule(element, context),
            DoorHeightConstraintRule(element, context) >>
    ELSE <<>>

\* getCacheKey: id, type, JSON.stringify(element.geometry) and context.mode
getCacheKey(element, context) ==
    [id |-> element.id, type |-> element.type,
     geometryHash |-> element.geometry, mode |-> context.mode]

\* The context useValidation builds from the elements
ContextOf(elements) ==
    [allElements |-> elements,
     walls |-> SelectSeq(elements, isWall),
     doors |-> SelectSeq(elements, isDoor),
     mode |-> "real-time"]

\* useValidation's validateElement(elementId) for a door of the model
ValidateElement(elementId) ==
    /\ model # Undefined
    /\ elementId \in ElementIds(model)
    /\ isDoor(Find(model, elementId))
    /\ LET element == Find(model, elementId)
           context == ContextOf(model)
           cacheKey == getCacheKey(element, context)
           hit == cacheKey \in DOMAIN cache
           results == IF hit THEN cache[cacheKey]
                      ELSE Evaluate(element, context)
       IN  /\ cache' = IF hit THEN cache
                       ELSE [k \in DOMAIN cache \cup {cacheKey} |->
                               IF k = cacheKey THEN results ELSE cache[k]]
           /\ event' = [op |-> "validateElement", id |-> elementId,
                        results |-> results]
    /\ UNCHANGED <<model, history, historyIndex, nextId, rebuildVars>>

\* useValidation's clearCache
ClearCache ==
    /\ cache # <<>>
    /\ cache' = <<>>
    /\ event' = [op |-> "clearCache"]
    /\ UNCHANGED <<model, history, historyIndex, nextId, rebuildVars>>

NextValidate ==
    \/ \E segment \in DrawnSegments : HandleWallCreate(segment)
    \/ \E wallId \in 1..MaxIds, point \in EditorClicks :
          HandleCanvasClick(wallId, point, TRUE)
    \/ \E wallId \in 1..MaxIds, height \in PanelHeights :
          /\ wallId \in WallIdsOf(model)
          /\ HandleElementUpdate(wallId,
                [geometry |-> [dimensions |-> [height |-> height]]])
    \/ \E elementId \in 1..MaxIds : ValidateElement(elementId)
    \/ ClearCache

SpecValidate == InitEditor /\ [][NextValidate]_vars

----------------------------------------------------------------------------
(* Vocabulary of the properties *)

\* buildWallNetworks has just returned
NetworksBuilt == pc = "built" /\ net = 0

\* Two walls touch: some pair of their four endpoint combinations is closer
\* than the tolerance
Touch(a, b) ==
    \E p \in {a.start, a.end} : \E q \in {b.start, b.end} :
        Dist2(p, q) < Tolerance * Tolerance

\* The ids reachable from a set of ids by chains of touching walls
RECURSIVE ChainFrom(_)
ChainFrom(S) ==
    LET more == { id \in Ids(walls) :
                    \E s \in S : Touch(WallById(walls, s), WallById(walls, id)) }
    IN  IF more \subseteq S THEN S ELSE ChainFrom(S \cup more)

NetworkOf(id) == { k \in 1..Len(networks) : id \in networks[k].wallIds }

\* A connection has been processed by the running processWallNetwork call
JunctionDone == pc = "joints" /\ junction.branch # "idle"

\* The wall's endpoint at the junction is its start
AtStart(w) == Near(w.start, junction.point)

\* The extended endpoint of w at the junction, after and before the iteration
JunctionEnd(exts, w) ==
    IF AtStart(w) THEN exts[w.id].extendedStart ELSE exts[w.id].extendedEnd
OtherEnd(exts, w) ==
    IF AtStart(w) THEN exts[w.id].extendedEnd ELSE exts[w.id].extendedStart

EndChanged(w) == JunctionEnd(extensions, w) # JunctionEnd(junction.before, w)
Untouched(w) ==
    /\ extensions[w.id].extendedStart = junction.before[w.id].extendedStart
    /\ extensions[w.id].extendedEnd = junction.before[w.id].extendedEnd

\* Distance from the extended junction endpoint of w to w's far endpoint: the
\* far endpoint lies the wall's length along the axis from the near one
FarDistance(exts, w) ==
    LET length == Rat(ISqrt(Dist2(w.start, w.end)), 1)
        v == JunctionEnd(exts, w)
    IN  IF AtStart(w) THEN RAbs(RSub(length, v.off))
        ELSE RAbs(RAdd(length, v.off))

\* How far the junction endpoint of w has moved, positive toward the wall's
\* far endpoint (inward), negative away from it (outward)
InwardShift(w) ==
    LET d == RSub(JunctionEnd(extensions, w).off,
                  JunctionEnd(junction.before, w).off)
    IN  IF AtStart(w) THEN d ELSE RSub(RZero, d)

JunctionWalls == { junction.walls[i] : i \in 1..Len(junction.walls) }

JunctionAngle ==
    calculateAngleBetweenWalls(junction.walls[1], junction.walls[2],
                               junction.point)

\* The longest wall of the junction, the first in its list among equals
LongestFirst ==
    LET ws == junction.walls
        i == CHOOSE i \in 1..Len(ws) :
                /\ \A j \in 1..Len(ws) :
                      Dist2(ws[j].start, ws[j].end) <= Dist2(ws[i].start, ws[i].end)
                /\ \A j \in 1..(i - 1) :
                      Dist2(ws[j].start, ws[j].end) < Dist2(ws[i].start, ws[i].end)
    IN  ws[i]

HalfThicknessPlusMargin(w) == RAdd(Rat(w.thickness, 2), Rat(2, 1))

----------------------------------------------------------------------------
(* C1: buildWallNetworks partitions the input walls: every wall is in exactly
   one group, the groups' union is the input, they are pairwise disjoint, none
   is empty, and a wall that touches no other wall is a group of its own. *)
C1_Partition ==
    NetworksBuilt =>
        /\ UNION { networks[k].wallIds : k \in 1..Len(networks) } = Ids(walls)
        /\ \A k, l \in 1..Len(networks) :
              k # l => networks[k].wallIds \cap networks[l].wallIds = {}
        /\ \A k \in 1..Len(networks) :
              /\ networks[k].wallIds # {}
              /\ Ids(networks[k].walls) = networks[k].wallIds
              /\ Len(networks[k].walls) = Cardinality(networks[k].wallIds)
        /\ \A i \in 1..Len(walls) :
              /\ Cardinality(NetworkOf(walls[i].id)) = 1
              /\ (\A j \in 1..Len(walls) : j # i => ~Touch(walls[i], walls[j]))
                    => \E k \in 1..Len(networks) :
                          networks[k].wallIds = {walls[i].id}

\* Several walls in one group beside a wall alone in its own
C1_Witness ==
    /\ NetworksBuilt
    /\ \E k, l \in 1..Len(networks) :
          /\ Cardinality(networks[k].wallIds) >= 3
          /\ Cardinality(networks[l].wallIds) = 1

(* C2: two walls are in the same network exactly when a chain of walls, each
   touching the next within the tolerance, leads from one to the other; in
   particular two walls that touch are in the same network, whatever the order
   of the input. *)
C2_ChainConnected ==
    NetworksBuilt =>
        \A i, j \in 1..Len(walls) :
            /\ (NetworkOf(walls[i].id) = NetworkOf(walls[j].id))
                  <=> walls[j].id \in ChainFrom({walls[i].id})
            /\ Touch(walls[i], walls[j])
                  => NetworkOf(walls[i].id) = NetworkOf(walls[j].id)

\* Walls 1 and 4 do not touch and are joined only through wall 3, which comes
\* last in the input
C2_Witness ==
    /\ NetworksBuilt
    /\ Len(walls) >= 3
    /\ walls[Len(walls)].id = 3
    /\ \E k \in 1..Len(networks) : {1, 3, 4} \subseteq networks[k].wallIds
    /\ ~Touch(Catalogue[1], Catalogue[4])

(* C3: detectJointType depends only on the number of walls touching the point
   and, for two walls, on the angle between their directions away from the
   point: two walls within 0.1 rad of pi give NONE, two walls otherwise
   L_JOINT, three T_JOINT, four X_JOINT, more than four OBLIQUE, none or one
   NONE. *)
C3_Classification ==
    probe.called =>
        LET at == { i \in 1..Len(walls) :
                      \/ Dist2(walls[i].start, probe.point) < Tolerance * Tolerance
                      \/ Dist2(walls[i].end, probe.point) < Tolerance * Tolerance }
            count == Cardinality(at)
            first == CHOOSE i \in at : \A j \in at : i <= j
            second == CHOOSE j \in at : j # first
        IN  probe.jointType =
                CASE count = 2 ->
                        IF AngleNearPi(calculateAngleBetweenWalls(
                               walls[first], walls[second], probe.point))
                        THEN "NONE" ELSE "L_JOINT"
                  [] count = 3 -> "T_JOINT"
                  [] count = 4 -> "X_JOINT"
                  [] count > 4 -> "OBLIQUE"
                  [] OTHER -> "NONE"

\* Walls 5 and 6 alone at (0,0): 0.095 rad short of a straight line, NONE
C3_Witness ==
    /\ probe.called
    /\ probe.point = Pt(0, 0)
    /\ Ids(walls) = {5, 6}
    /\ probe.jointType = "NONE"

(* C4: whenever the butt method changes a wall's endpoint at a junction, the
   new endpoint is strictly closer to the wall's far endpoint than the
   original endpoint was. *)
C4_ButtShortens ==
    (JunctionDone /\ junction.branch = "butt") =>
        \A w \in JunctionWalls :
            EndChanged(w) =>
                RLess(FarDistance(extensions, w),
                      FarDistance(junction.before, w))

(* C5: whenever the miter method proper (not its fallback) changes a wall's
   endpoint at a two-wall corner, the new endpoint is strictly farther from
   the wall's far endpoint than the original, on the wall's own line: the wall
   is lengthened past the junction by a strictly positive distance. *)
C5_MiterLengthens ==
    (JunctionDone /\ junction.branch = "miter" /\ ~MiterTooSharp(JunctionAngle)) =>
        \A w \in JunctionWalls :
            EndChanged(w) =>
                /\ RLess(FarDistance(junction.before, w),
                         FarDistance(extensions, w))
                /\ RLess(InwardShift(w), RZero)
                /\ JunctionEnd(extensions, w).p = JunctionEnd(junction.before, w).p
                /\ OtherEnd(extensions, w) = OtherEnd(junction.before, w)

\* A right-angled corner of walls 1 and 2 resolved by the miter method
C5_Witness ==
    /\ JunctionDone
    /\ junction.branch = "miter"
    /\ ~MiterTooSharp(JunctionAngle)
    /\ \A w \in JunctionWalls : EndChanged(w)

(* C6: at a two-wall corner resolved by the miter method with the sine of the
   miter angle below 0.1, the junction is resolved as by the butt method: the
   through wall (the longer, the first on ties) is left unmodified and the
   other wall's junction endpoint is displaced by half the through wall's
   thickness plus 0.01. *)
C6_FallbackIsButt ==
    (JunctionDone /\ junction.branch = "miter" /\ MiterTooSharp(JunctionAngle)) =>
        /\ Untouched(LongestFirst)
        /\ \A w \in JunctionWalls \ {LongestFirst} :
              RAbs(InwardShift(w)) = HalfThicknessPlusMargin(LongestFirst)

(* C7: at every junction resolved with the butt method exactly one wall is the
   through wall, the longest of the junction's walls and the first in its list
   among equally long ones; the junction changes neither extended endpoint of
   the through wall and replaces the junction endpoint of every other wall. *)
C7_ThroughWall ==
    (JunctionDone /\ junction.branch = "butt") =>
        /\ junction.through = LongestFirst.id
        /\ Untouched(LongestFirst)
        /\ \A w \in JunctionWalls \ {LongestFirst} :
              /\ EndChanged(w)
              /\ OtherEnd(extensions, w) = OtherEnd(junction.before, w)
        /\ \A id \in DOMAIN extensions :
              (\A w \in JunctionWalls : w.id # id)
                  => extensions[id] = junction.before[id]

\* Three or more walls of which the two longest are equally long
C7_Witness ==
    /\ JunctionDone
    /\ junction.branch = "butt"
    /\ Len(junction.walls) >= 3
    /\ \E w \in JunctionWalls \ {LongestFirst} :
          Dist2(w.start, w.end) = Dist2(LongestFirst.start, LongestFirst.end)

(* C8: for three walls sharing one endpoint under the automatic strategy the
   junction is a T-joint, the longest wall's extended endpoints equal its
   original endpoints, and each of the other two walls has its junction
   endpoint retracted inward, toward its own far endpoint, by exactly half the
   through wall's thickness plus 0.01. *)
C8_TJointRetracts ==
    (JunctionDone /\ jointMethod = "auto" /\ Len(walls) = 3
        /\ Len(junction.walls) = 3) =>
        /\ junction.jointType = "T_JOINT"
        /\ extensions[LongestFirst.id].extendedStart
              = extensions[LongestFirst.id].originalStart
        /\ extensions[LongestFirst.id].extendedEnd
              = extensions[LongestFirst.id].originalEnd
        /\ \A w \in JunctionWalls \ {LongestFirst} :
              InwardShift(w) = HalfThicknessPlusMargin(LongestFirst)

(* C9: under 'auto' every two-wall corner joint is resolved with the miter
   method, every T, cross and oblique joint with the butt method, and a
   junction classified NONE with neither. *)
C9_AutoMapping ==
    (JunctionDone /\ jointMethod = "auto") =>
        /\ junction.jointType = "L_JOINT" =>
              /\ junction.branch = "miter"
              /\ \A w \in JunctionWalls : EndChanged(w)
        /\ junction.jointType \in {"T_JOINT", "X_JOINT", "OBLIQUE"} =>
              /\ junction.branch = "butt"
              /\ \E w \in JunctionWalls :
                    /\ Untouched(w)
                    /\ \A v \in JunctionWalls \ {w} : EndChanged(v)
        /\ junction.jointType = "NONE" =>
              /\ junction.branch = "none"
              /\ extensions = junction.before

\* Five walls at one point, resolved with the butt method
C9_Witness ==
    /\ JunctionDone
    /\ jointMethod = "auto"
    /\ junction.jointType = "OBLIQUE"
    /\ junction.branch = "butt"

(* C10, as claimed: an explicit strategy overrides the mapping uniformly; with
   'butt' every junction that is not NONE is resolved with the butt method,
   with 'miter' every junction that is not NONE, T, cross and oblique joints
   included, is resolved with the miter method. *)
C10_ExplicitUniform ==
    (JunctionDone /\ junction.jointType # "NONE") =>
        /\ jointMethod = "butt" => junction.branch = "butt"
        /\ jointMethod = "miter" => junction.branch = "miter"

(* C10, amended: with 'butt' every junction that is not NONE, two-wall corners
   included, is resolved with the butt method; with 'miter' every two-wall
   corner is resolved with the miter method, and T, cross and oblique joints
   are still resolved with the butt method. *)
C10_ExplicitAmended ==
    (JunctionDone /\ junction.jointType # "NONE") =>
        /\ jointMethod = "butt" =>
              /\ junction.branch = "butt"
              /\ Untouched(LongestFirst)
        /\ (jointMethod = "miter" /\ junction.jointType = "L_JOINT") =>
              /\ junction.branch = "miter"
              /\ \A w \in JunctionWalls : EndChanged(w)
        /\ (jointMethod = "miter" /\ junction.jointType # "L_JOINT") =>
              /\ junction.branch = "butt"
              /\ Untouched(LongestFirst)

\* A T-joint under the explicit 'miter' strategy
C10_Witness ==
    /\ JunctionDone
    /\ jointMethod = "miter"
    /\ junction.jointType = "T_JOINT"
    /\ junction.branch = "butt"

\* processWallNetwork has returned the extensions of network number net
Returned == pc = "built" /\ net > 0

\* An extended endpoint of the wall differs from its original
Moved(ext) ==
    \/ ext.extendedStart # ext.originalStart
    \/ ext.extendedEnd # ext.originalEnd

(* C11: in the map returned by processWallNetwork the flag wasExtended of a
   wall is true exactly when one of its extended endpoints differs from the
   corresponding original endpoint, for every network and every order of its
   junctions. *)
C11_FlagMatchesGeometry ==
    Returned =>
        \A id \in DOMAIN extensions :
            extensions[id].wasExtended <=> Moved(extensions[id])

\* The walls of the network whose extensions have been returned
Processed == networks[net].walls

\* Neither endpoint of the wall has been changed and the flag is down
Pristine(exts, w) ==
    /\ exts[w.id].extendedStart = tupleToVec3(w.start)
    /\ exts[w.id].extendedEnd = tupleToVec3(w.end)
    /\ exts[w.id].wasExtended = FALSE

\* Walls a and b share an endpoint and leave it in exactly opposite directions
Straight(a, b) ==
    \E ea, eb \in {"start", "end"} :
        LET p  == IF ea = "start" THEN a.start ELSE a.end
            pf == IF ea = "start" THEN a.end ELSE a.start
            q  == IF eb = "start" THEN b.start ELSE b.end
            qf == IF eb = "start" THEN b.end ELSE b.start
            ux == pf.x - p.x
            uz == pf.z - p.z
            vx == qf.x - q.x
            vz == qf.z - q.z
        IN  /\ Dist2(p, q) < Tolerance * Tolerance
            /\ ux * vz - uz * vx = 0
            /\ ux * vx + uz * vz < 0

(* C17: for a network of two collinear walls that share one endpoint and touch
   nothing else, the junction is classified NONE and processWallNetwork returns
   both walls with extended endpoints equal to the original endpoints and
   wasExtended false, under every strategy. *)
C17_StraightRunUnchanged ==
    (Returned /\ Len(Processed) = 2 /\ Straight(Processed[1], Processed[2])) =>
        /\ junction.jointType = "NONE"
        /\ junction.branch = "none"
        /\ \A i \in 1..2 : Pristine(extensions, Processed[i])

\* Walls 6 and 7, one straight run through the origin, under 'miter'
C17_Witness ==
    /\ Returned
    /\ Ids(Processed) = {6, 7}
    /\ Len(connectionPoints) = 1
    /\ jointMethod = "miter"
    /\ junction.branch = "none"

\* The connection points of the returned call that hold wall w
ConnectionsOf(w) ==
    { k \in 1..Len(connectionPoints) :
        \E i \in 1..Len(connectionPoints[k].walls) :
            connectionPoints[k].walls[i].id = w.id }

\* The named endpoint of w and its extended value
EndpointOf(w, side) == IF side = "start" THEN w.start ELSE w.end
ExtendedOf(exts, w, side) ==
    IF side = "start" THEN exts[w.id].extendedStart ELSE exts[w.id].extendedEnd
Opposite(side) == IF side = "start" THEN "end" ELSE "start"

\* The connection points of w that lie at the named endpoint
ConnectionsAt(w, side) ==
    { k \in ConnectionsOf(w) :
        Near(EndpointOf(w, side), connectionPoints[k].point) }

\* The network without the walls that meet w at the named endpoint
WithoutJunctionAt(w, side) ==
    SelectSeq(Processed,
        LAMBDA v : \/ v.id = w.id
                   \/ \A k \in ConnectionsAt(w, side) :
                         \A i \in 1..Len(connectionPoints[k].walls) :
                             connectionPoints[k].walls[i].id # v.id)

(* C18: in the map returned by processWallNetwork, originalStart and
   originalEnd of every wall equal the input endpoints; an endpoint that lies
   at no connection point has its extended value equal to the original; and
   for a wall held by two different connection points, the extended point at
   each end equals the one returned for the network without the walls of the
   connection point at the other end. *)
C18_OnlyJunctionEndpoint ==
    Returned =>
        \A i \in 1..Len(Processed) :
            LET w == Processed[i]
            IN  /\ extensions[w.id].originalStart = tupleToVec3(w.start)
                /\ extensions[w.id].originalEnd = tupleToVec3(w.end)
                /\ \A side \in {"start", "end"} :
                      /\ ConnectionsAt(w, side) = {}
                            => ExtendedOf(extensions, w, side)
                                  = tupleToVec3(EndpointOf(w, side))
                      /\ Cardinality(ConnectionsOf(w)) = 2
                            => ExtendedOf(extensions, w, side)
                                  = ExtendedOf(
                                       processWallNetwork(
                                          WithoutJunctionAt(w, Opposite(side)),
                                          jointMethod),
                                       w, side)

\* Wall 1 mitered with wall 8 at its end, then butted at the hub at its start
C18_Witness ==
    /\ Returned
    /\ jointMethod = "auto"
    /\ 1 \in Ids(Processed)
    /\ Cardinality(ConnectionsOf(Catalogue[1])) = 2
    /\ connectionPoints[1].point = Pt(12, 1)
    /\ extensions[1].extendedStart # extensions[1].originalStart
    /\ extensions[1].extendedEnd # extensions[1].originalEnd

\* The two walls of the junction leave it at a right angle
RightAngle ==
    LET a == junction.walls[1]
        b == junction.walls[2]
        af == IF AtStart(a) THEN a.end ELSE a.start
        an == IF AtStart(a) THEN a.start ELSE a.end
        bf == IF AtStart(b) THEN b.end ELSE b.start
        bn == IF AtStart(b) THEN b.start ELSE b.end
    IN  (af.x - an.x) * (bf.x - bn.x) + (af.z - an.z) * (bf.z - bn.z) = 0

(* C20: for two walls of thickness 0.375 meeting at 90 degrees at a shared
   endpoint, under 'auto' the junction is a corner joint resolved by the miter
   method, the tangent of the miter angle is 1 (45 degrees), and each wall's
   shared endpoint moves outward along the wall's own line by
   (0.375/2)/tan(45 degrees) + 0.01 = 0.1975 (79/2 units of 0.005), the other
   endpoint staying where it was. *)
C20_RightAngleMiter ==
    (JunctionDone /\ jointMethod = "auto" /\ Len(junction.walls) = 2
        /\ (\A w \in JunctionWalls : w.thickness = 75) /\ RightAngle) =>
        /\ junction.jointType = "L_JOINT"
        /\ junction.branch = "miter"
        /\ TanHalf(JunctionAngle) = Rat(1, 1)
        /\ \A w \in JunctionWalls :
              /\ InwardShift(w) = Rat(0 - 79, 2)
              /\ JunctionEnd(junction.before, w)
                    = tupleToVec3(IF AtStart(w) THEN w.start ELSE w.end)
              /\ JunctionEnd(extensions, w).p = JunctionEnd(junction.before, w).p
              /\ OtherEnd(extensions, w) = OtherEnd(junction.before, w)

\* Walls 1 and 2, both 0.375 thick, meeting at the origin
C20_Witness ==
    /\ JunctionDone
    /\ jointMethod = "auto"
    /\ { w.id : w \in JunctionWalls } = {1, 2}
    /\ Len(junction.walls) = 2
    /\ junction.point = Pt(0, 0)
    /\ extensions[1].extendedStart.off = Rat(0 - 79, 2)
    /\ extensions[2].extendedEnd.off = Rat(79, 2)

(* C16: a call of processWallNetwork on the walls and with the strategy of the
   preceding call returns, for every wall, the extended start, extended end and
   wasExtended flag the preceding call returned, and after every call the walls
   passed in are what they were before the first one. *)
C16_RepeatedCallAgrees ==
    Returned =>
        /\ Processed = previous.input
        /\ previous.calls >= 2 =>
              /\ DOMAIN extensions = DOMAIN previous.result
              /\ \A id \in DOMAIN extensions :
                    /\ extensions[id].extendedStart
                          = previous.result[id].extendedStart
                    /\ extensions[id].extendedEnd
                          = previous.result[id].extendedEnd
                    /\ extensions[id].wasExtended
                          = previous.result[id].wasExtended

\* A second call has returned for a network whose first call moved an endpoint
\* at two junctions
C16_Witness ==
    /\ Returned
    /\ previous.calls = 2
    /\ Len(connectionPoints) >= 2
    /\ \E id \in DOMAIN extensions :
          /\ extensions[id].extendedStart # extensions[id].originalStart
          /\ extensions[id].extendedEnd # extensions[id].originalEnd

\* The mesh of network number net has been added to the scene
AssemblyDone == pc \in {"networks", "done"} /\ net > 0

\* The performBoolean calls of the given kind made for network number net:
\* their second operand is one of the geometries created for it
NetworkCalls(operation) ==
    SelectSeq(csgCalls,
        LAMBDA c : c.operation = operation /\ c.geom2 >= wallGeometries[1])

\* The running geometry before call k of calls: the result of the last
\* successful call before it, or the geometry the loop started with
RunningBefore(calls, first, k) ==
    LET S == { j \in 1..(k - 1) : calls[j].result # 0 }
    IN  IF S = {} THEN first
        ELSE calls[CHOOSE m \in S : \A j \in S : j <= m].result

\* The network meshes of the scene, and the geometry of the mesh of network
\* number net
Meshes == SelectSeq(scene, LAMBDA o : o.elementType = "wall")
MeshGeometry == Meshes[net].geometry

(* C12: when the assembly of a network of n walls has finished, exactly n-1
   union calls have been made, the k-th with wall volume k+1 as second
   operand and the running result (the last successful result, or wall volume
   1) as first; every wall volume but the first has been released and is an
   operand of no call but its own;
   a mesh has been added for the network, and it is made of wall volume 1 and
   of the wall volumes whose union call succeeded, so that of all other n-1
   walls when one call failed. *)
C12_FailedUnionSkipped ==
    AssemblyDone =>
        LET calls == NetworkCalls("union")
            n == Len(wallGeometries)
            succeeded == { k \in 1..(n - 1) : calls[k].result # 0 }
        IN  /\ Len(calls) = n - 1
            /\ \A k \in 1..(n - 1) :
                  /\ calls[k].geom2 = wallGeometries[k + 1]
                  /\ calls[k].geom1 = RunningBefore(calls, wallGeometries[1], k)
                  /\ \A j \in 1..Len(csgCalls) :
                        csgCalls[j].geom1 # wallGeometries[k + 1]
                  /\ heap[wallGeometries[k + 1]].disposed = 1
            /\ Len(Meshes) = net
            /\ heap[MeshGeometry].solid =
                  UNION ({ heap[wallGeometries[1]].solid }
                         \cup { heap[wallGeometries[k + 1]].solid : k \in succeeded })
            /\ Cardinality(succeeded) = n - 2
                  => Cardinality(heap[MeshGeometry].solid) = n - 1

\* Three walls, the union with the second failed and the one with the third
\* succeeded
C12_Witness ==
    /\ AssemblyDone
    /\ Len(wallGeometries) = 3
    /\ NetworkCalls("union")[1].result = 0
    /\ NetworkCalls("union")[2].result # 0
    /\ Cardinality(heap[MeshGeometry].solid) = 2

\* The geometries created for network number net
Created == wallGeometries[1]..Len(heap)

(* C13: when the assembly of a network has finished, every geometry created
   for it (wall volume, union or difference result, door cutter) has been
   released exactly once, except the geometry of the network's mesh, which
   has not been released; for every pattern of successes and failures. *)
C13_AllReleased ==
    AssemblyDone =>
        \A h \in Created :
            heap[h].disposed = IF h = MeshGeometry THEN 0 ELSE 1

\* The doors of networkDoors whose parent wall is in the network
HostedDoors ==
    SelectSeq(networkDoors,
        LAMBDA d : d.parentWallId \in Ids(networks[net].walls))

(* C14: when the assembly of a network has finished, one difference call has
   been made for every door of the network whose parent wall is in it, in the
   order of the doors; each call's first operand is the running geometry (the
   result of the last successful difference before it, or the result of the
   union fold), so a failed call leaves it as it was; the mesh holds the
   running geometry after the last call, with the cutters of the successful
   calls removed. *)
C14_FailedDifferenceSkipped ==
    AssemblyDone =>
        LET calls == NetworkCalls("difference")
            unions == NetworkCalls("union")
            folded == RunningBefore(unions, wallGeometries[1], Len(unions) + 1)
            succeeded == { k \in 1..Len(calls) : calls[k].result # 0 }
        IN  /\ Len(calls) = Len(HostedDoors)
            /\ \A k \in 1..Len(calls) :
                  /\ { piece.door : piece \in heap[calls[k].geom2].solid }
                        = { HostedDoors[k].id }
                  /\ calls[k].geom1 = RunningBefore(calls, folded, k)
            /\ Len(Meshes) = net
            /\ MeshGeometry = RunningBefore(calls, folded, Len(calls) + 1)
            /\ heap[MeshGeometry].removed =
                  UNION { heap[calls[k].geom2].solid : k \in succeeded }

\* Two doors on the network's walls: the difference for the first failed, the
\* one for the second succeeded
C14_Witness ==
    /\ AssemblyDone
    /\ Len(NetworkCalls("difference")) = 2
    /\ NetworkCalls("difference")[1].result = 0
    /\ NetworkCalls("difference")[2].result # 0
    /\ Cardinality(heap[MeshGeometry].removed) = 1

\* The rebuild has run to its end
RebuildDone == pc = "done"

\* The doors whose parentWallId is the id of no wall
Orphans ==
    { doors[i].id : i \in { j \in 1..Len(doors) :
                              doors[j].parentWallId \notin Ids(walls) } }

\* The doors a set of pieces belongs to
DoorsOf(pieces) == { piece.door : piece \in { q \in pieces : "door" \in DOMAIN q } }

(* C15: at the end of a rebuild, for a door whose parentWallId names no wall,
   no geometry has been created (no cutter), no performBoolean call has had a
   cutter of it as operand, the scene holds no door object of it, and the
   scene holds one mesh per network, none of which has anything of the door
   removed from it; every other door of the model has its door object. *)
C15_OrphanDoorIgnored ==
    RebuildDone =>
        /\ \A h \in 1..Len(heap) :
              DoorsOf(heap[h].solid \cup heap[h].removed) \cap Orphans = {}
        /\ \A j \in 1..Len(csgCalls) :
              DoorsOf(heap[csgCalls[j].geom2].solid) \cap Orphans = {}
        /\ { o.elementId : o \in { scene[i] : i \in { j \in 1..Len(scene) :
                                       scene[j].elementType = "door" } } }
              = { doors[i].id : i \in 1..Len(doors) } \ Orphans
        /\ Len(Meshes) = Len(networks)

\* A rebuild has ended for a model with a door on a wall and a door without
\* parent wall that a wall of the model still names
C15_Witness ==
    /\ RebuildDone
    /\ Orphans # {}
    /\ \E id \in Ids(walls) : wallDoors[id] \cap Orphans # {}
    /\ Orphans # { doors[i].id : i \in 1..Len(doors) }
    /\ Len(csgCalls) > 0

(* C19: at the end of a rebuild the scene holds exactly one mesh per wall
   network, the k-th tagged with exactly the ids of the walls of the k-th
   network, and every wall of the model is in the tag of exactly one mesh. *)
C19_OneMeshPerNetwork ==
    RebuildDone =>
        /\ Len(Meshes) = Len(networks)
        /\ \A k \in 1..Len(Meshes) :
              /\ Meshes[k].wallIds = Ids(networks[k].walls)
              /\ Meshes[k].isNetwork
        /\ \A id \in Ids(walls) :
              Cardinality({ k \in 1..Len(Meshes) : id \in Meshes[k].wallIds }) = 1
        /\ \A k \in 1..Len(Meshes) : Meshes[k].wallIds \subseteq Ids(walls)

\* Three walls in two networks, two meshes
C19_Witness ==
    /\ RebuildDone
    /\ Len(walls) = 3
    /\ Len(Meshes) = 2
    /\ \E k \in 1..2 : Cardinality(Meshes[k].wallIds) = 2

\* findConnectionPoints has returned in the running processWallNetwork call
ConnectionsFound == pc = "joints"

(* C28: for every two walls of the network passed to processWallNetwork that
   wallsAreConnected reports as connected, findConnectionPoints returns a
   connection point whose wall list holds both, whatever the order of the
   walls. *)
C28_TouchingWallsShareJunction ==
    ConnectionsFound =>
        \A i, j \in 1..Len(Processed) :
            (i # j /\ wallsAreConnected(Processed[i], Processed[j])) =>
                \E k \in 1..Len(connectionPoints) :
                    {Processed[i].id, Processed[j].id}
                        \subseteq Ids(connectionPoints[k].walls)

\* The performBoolean call made by the step, when the step makes one
CallMade == Len(csgCalls') = Len(csgCalls) + 1
LastCall == csgCalls'[Len(csgCalls')]

\* The mesh added by the step, when the step adds one
MeshAdded ==
    /\ Len(scene') = Len(scene) + 1
    /\ scene'[Len(scene')].elementType = "wall"

(* C30: during a rebuild no geometry has been released more than once, the
   geometry of every mesh in the scene is unreleased, every operand of a
   performBoolean call that existed before the call is unreleased when the
   call is made, and the geometry of a mesh is unreleased when the mesh is
   added; for every pattern of successes and failures. *)
C30_NoUseAfterRelease ==
    /\ [](/\ \A h \in 1..Len(heap) : heap[h].disposed <= 1
          /\ \A k \in 1..Len(Meshes) : heap[Meshes[k].geometry].disposed = 0)
    /\ [][/\ CallMade =>
              \A g \in {LastCall.geom1, LastCall.geom2} \cap (1..Len(heap)) :
                  heap[g].disposed = 0
          /\ MeshAdded => heap[scene'[Len(scene')].geometry].disposed = 0]_vars

\* Three walls and a door: a failed union, a successful union that releases
\* the first wall volume, a successful difference, and the mesh added
C30_Witness ==
    /\ AssemblyDone
    /\ Len(wallGeometries) = 3
    /\ NetworkCalls("union")[1].result = 0
    /\ NetworkCalls("union")[2].result # 0
    /\ heap[wallGeometries[1]].disposed = 1
    /\ Len(NetworkCalls("difference")) >= 1
    /\ NetworkCalls("difference")[1].result # 0

\* Network number net is being assembled or has been
Assembling == pc \in {"union", "doors", "networks", "done"} /\ net > 0

\* All performBoolean calls made for network number net, in call order
AllNetworkCalls ==
    SelectSeq(csgCalls, LAMBDA c : c.geom2 >= wallGeometries[1])

(* C25: within the assembly of one network of n walls no union call follows a
   difference call; every difference call is made after all n-1 union calls
   and its first operand is the running geometry, the result of the last
   successful call (union or difference) before it, or wall volume 1; the
   network's mesh is not in the scene while calls are still being made, and
   when it is added its geometry is the running geometry after the last call
   of the network. *)
C25_UnionsThenDifferences ==
    Assembling =>
        LET calls == AllNetworkCalls
            n == Len(wallGeometries)
            unionsBefore(k) ==
                Cardinality({ j \in 1..(k - 1) : calls[j].operation = "union" })
        IN  /\ \A j, k \in 1..Len(calls) :
                  (j < k /\ calls[j].operation = "difference")
                      => calls[k].operation = "difference"
            /\ \A k \in 1..Len(calls) :
                  calls[k].operation = "difference" =>
                      /\ unionsBefore(k) = n - 1
                      /\ calls[k].geom1 =
                            RunningBefore(calls, wallGeometries[1], k)
            /\ pc \in {"union", "doors"} => Len(Meshes) = net - 1
            /\ AssemblyDone =>
                  /\ Len(Meshes) = net
                  /\ unionsBefore(Len(calls) + 1) = n - 1
                  /\ Len(calls) = n - 1 + Len(HostedDoors)
                  /\ MeshGeometry =
                        RunningBefore(calls, wallGeometries[1], Len(calls) + 1)

\* A network of three walls with two doors: two unions, then two differences,
\* the first of which failed, then the mesh
C25_Witness ==
    /\ AssemblyDone
    /\ Len(wallGeometries) = 3
    /\ Len(AllNetworkCalls) = 4
    /\ AllNetworkCalls[2].result # 0
    /\ AllNetworkCalls[3].operation = "difference"
    /\ AllNetworkCalls[3].result = 0
    /\ AllNetworkCalls[4].result = MeshGeometry

\* The doors of the model, and the doors whose parent wall is in the model
DoorsIn(elements) ==
    { elements[i] : i \in { j \in 1..Len(elements) : isDoor(elements[j]) } }
HostedIn(elements) ==
    { d \in DoorsIn(elements) : d.parentWallId \in WallIdsOf(elements) }

(* C27: after every handler of the editor (wall creation, door placement,
   property edit, deletion, undo, redo, clear, import), the door placement
   and the door deletion issuing two mutations each, historyIndex is at
   least 0 and at most history.length - 1, the history holds at most 50
   snapshots, and the current model is history[historyIndex]. *)
C27_HistoryConsistent ==
    /\ 0 <= historyIndex
    /\ historyIndex <= Len(history) - 1
    /\ Len(history) <= HistoryLimit
    /\ model = HistoryAt(historyIndex)

(* C22: after every sequence of editor operations the depth of every door
   whose parent wall is in the model equals the thickness that wall has
   now. *)
C22_DoorDepthIsWallThickness ==
    \A d \in HostedIn(model) :
        d.geometry.dimensions.depth = Find(model, d.parentWallId).thickness

\* The step is the deletion of a wall of the model
WallRemoved ==
    /\ event'.op = "handleElementDelete"
    /\ event'.id \in WallIdsOf(model)

\* The ids in the doors list of a wall of the model
ListedBy(elements, wallId) ==
    { Find(elements, wallId).doors[k] :
        k \in 1..Len(Find(elements, wallId).doors) }

(* C26: a step that removes a wall leaves a model that holds neither the
   wall nor any door named in the wall's doors list, and holds every other
   element unchanged and in the same order; if before the step every door
   of the model whose parent is the wall was named in the wall's doors
   list, no door whose parentWallId is the wall's id is left. *)
C26_WallRemovalCascades ==
    [][WallRemoved =>
          LET id == event'.id
              gone == {id} \cup ListedBy(model, id)
          IN  /\ ElementIds(model') \cap gone = {}
              /\ model' = SelectSeq(model, LAMBDA el : el.id \notin gone)
              /\ (\A d \in DoorsIn(model) :
                     d.parentWallId = id => d.id \in ListedBy(model, id))
                    => \A d \in DoorsIn(model') : d.parentWallId # id]_vars

\* A wall with a door on it has been deleted from a model of two walls and
\* the door: the other wall is what is left
C26_Witness ==
    /\ event.op = "handleElementDelete"
    /\ Len(history) >= 2
    /\ LET before == history[Len(history) - 1]
       IN  /\ Len(before) = 3
           /\ event.id \in WallIdsOf(before)
           /\ ListedBy(before, event.id) # {}
           /\ Len(model) = 1
           /\ isWall(model[1])

(* C23: every door placed by the door tool's click handler, with the grid on
   or off and wherever the click lands, has an offsetOnWall of at least 0 and
   at most the length of its wall, and its stored position is the point at
   that offset from the wall's start on the wall's start-to-end segment. *)
C23_PlacedDoorOnWall ==
    \A d \in HostedIn(model) :
        LET wall == Find(model, d.parentWallId)
        IN  /\ ~RLess(d.offsetOnWall, RZero)
            /\ ~RLess(Rat(WallLength(wall), 1), d.offsetOnWall)
            /\ d.geometry.position = PointAtOffset(wall, d.offsetOnWall)

\* With the grid off a click beyond the wall's end has placed a door at the
\* wall's end; another door of the model lies strictly inside its wall
C23_Witness ==
    /\ event.op = "handleCanvasClick"
    /\ ~event.gridEnabled
    /\ LET wall == Find(model, event.wall)
           length == Rat(WallLength(wall), 1)
       IN  /\ RLess(length, Projection(wall, event.point))
           /\ Find(model, event.id).offsetOnWall = length
           /\ \E d \in HostedIn(model) :
                 /\ RLess(RZero, d.offsetOnWall)
                 /\ RLess(d.offsetOnWall, length)

\* The door a cutter geometry was made for
CutterDoor(handle) ==
    CHOOSE id \in DoorsOf(heap[handle].solid) : TRUE

\* The difference calls of the whole rebuild
Differences == SelectSeq(csgCalls, LAMBDA c : c.operation = "difference")

DoorById(id) == doors[CHOOSE i \in 1..Len(doors) : doors[i].id = id]

(* C24: when the assembly of a network has finished, the doors for which a
   difference call was made are exactly the doors of the model whose parent
   wall is in the network, with one call for each of them; during the whole
   rebuild no door has two difference calls, and nothing of a door is
   removed from the mesh of a network that does not hold the door's parent
   wall. *)
C24_DoorsCutFromParentNetwork ==
    /\ AssemblyDone =>
          LET calls == NetworkCalls("difference")
              members == { doors[i].id : i \in { j \in 1..Len(doors) :
                             doors[j].parentWallId
                                 \in Ids(networks[net].walls) } }
          IN  /\ { CutterDoor(calls[k].geom2) : k \in 1..Len(calls) } = members
              /\ Len(calls) = Cardinality(members)
    /\ \A j, k \in 1..Len(Differences) :
          j # k => CutterDoor(Differences[j].geom2)
                      # CutterDoor(Differences[k].geom2)
    /\ \A k \in 1..Len(Meshes) :
          \A id \in DoorsOf(heap[Meshes[k].geometry].removed) :
              DoorById(id).parentWallId \in Meshes[k].wallIds

\* The door's offsetOnWall exceeds the length of its parent wall
OutOfRange(door) ==
    RLess(Rat(WallLength(WallById(walls, door.parentWallId)), 1),
          door.offsetOnWall)

\* Where the cutter of a difference call was placed
CutterPosition(call) ==
    (CHOOSE piece \in heap[call.geom2].solid : TRUE).position

(* C21, as stated: when the assembly of a network has finished, for every
   door named by the network's walls whose parent wall is in the network and
   whose offsetOnWall exceeds that wall's length, a difference call has been
   made with a cutter of the door, and the cutter was placed at the point at
   distance offsetOnWall from the wall's start along the wall. *)
C21_CutterAtOffset ==
    AssemblyDone =>
        LET calls == NetworkCalls("difference")
        IN  /\ Len(calls) = Len(HostedDoors)
            /\ \A k \in 1..Len(calls) :
                  OutOfRange(HostedDoors[k]) =>
                      /\ CutterDoor(calls[k].geom2) = HostedDoors[k].id
                      /\ CutterPosition(calls[k]) =
                            PointAtOffset(
                                WallById(walls, HostedDoors[k].parentWallId),
                                HostedDoors[k].offsetOnWall)

(* C21, amended: when the assembly of a network has finished, for every door
   named by the network's walls whose parent wall is in the network, whether
   or not its offsetOnWall exceeds the wall's length, one difference call
   has been made with a cutter of the door, and the cutter was placed at the
   door's stored position, unchanged. *)
C21_CutterAtStoredPosition ==
    AssemblyDone =>
        LET calls == NetworkCalls("difference")
        IN  /\ Len(calls) = Len(HostedDoors)
            /\ \A k \in 1..Len(calls) :
                  /\ CutterDoor(calls[k].geom2) = HostedDoors[k].id
                  /\ CutterPosition(calls[k]) = HostedDoors[k].position

\* A door whose offset exceeds its wall's length and whose stored position
\* lies inside the wall has been cut out of the mesh at its stored position
C21_Witness ==
    /\ AssemblyDone
    /\ \E k \in 1..Len(HostedDoors) :
          LET d == HostedDoors[k]
              wall == WallById(walls, d.parentWallId)
          IN  /\ OutOfRange(d)
              /\ d.position # PointAtOffset(wall, d.offsetOnWall)
              /\ NetworkCalls("difference")[k].result # 0
              /\ \E piece \in heap[MeshGeometry].removed :
                    piece.door = d.id /\ piece.position = d.position

(* C29: the results returned by a validateElement call that uses the cache
   are the results an uncached evaluation of the element against the current
   model gives, after any sequence of model changes and earlier
   validations. *)
C29_CachedEqualsUncached ==
    event.op = "validateElement" =>
        event.results = Evaluate(Find(model, event.id), ContextOf(model))

====
